---------------------------- MODULE Spec2Model ----------------------------
(***************************************************************************)
(* Julie Julie: the command router and HTTP endpoints of                   *)
(* julie_julie_app.py, the speech output manager of                        *)
(* handlers/tts_handler.py, the Ollama service manager of                  *)
(* handlers/ollama_manager.py, the calculator of                           *)
(* handlers/calculation_handler.py, the audio, radio and visualizer        *)
(* handlers and the LLM streaming client, as state machines.               *)
(*                                                                         *)
(* Text is modelled as a sequence of word tokens; the string "a b" is      *)
(* <<"a", "b">>, the empty string is <<>>, and the token " " stands for a  *)
(* run of extra whitespace.  The vocabulary holds no word of which a       *)
(* pattern of the code matches only a part, so that the code's substring   *)
(* and regex searches are searches for a run of consecutive tokens.        *)
(* A Python value that may be None is a sequence of length 0 (None) or 1.  *)
(***************************************************************************)
EXTENDS Integers, Sequences, FiniteSets, TLC

VARIABLES
    google_available,   \* TTSManager.google_available, probed in __init__
    use_google_tts,     \* TTSManager.use_google_tts
    fallback_count,     \* TTSManager.fallback_count
    tts_call,           \* the last call of the TTS module that returned
    request,            \* the command a caller has submitted, not yet processed
    response,           \* what the last processed command produced
    memo,               \* the handler the same command was dispatched to before
    ollama,             \* the fields of the global OllamaManager
    ollama_call,        \* the call of the Ollama module in progress, or the last
    calc_call,          \* the last call of handle_calculation
    speakers,           \* the request threads inside TTSManager.speak
    handler_call,       \* the last call of an audio, radio or visualizer handler
    stream              \* the streamed LLM reply being spoken

tts_vars == <<google_available, use_google_tts, fallback_count, tts_call>>
router_vars == <<request, response, memo>>
ollama_vars == <<ollama, ollama_call>>
calc_vars == <<calc_call>>
speaker_vars == <<speakers>>
handler_vars == <<handler_call>>
stream_vars == <<stream>>
vars == <<google_available, use_google_tts, fallback_count, tts_call,
          request, response, memo, ollama, ollama_call, calc_call,
          speakers, handler_call, stream>>

\* what the operations of one module leave alone
beside_tts == <<router_vars, ollama_vars, calc_vars, speaker_vars, handler_vars,
                stream_vars>>
beside_router == <<tts_vars, ollama_vars, calc_vars, speaker_vars, handler_vars,
                   stream_vars>>
beside_ollama == <<tts_vars, router_vars, calc_vars, speaker_vars, handler_vars,
                   stream_vars>>
beside_calc == <<tts_vars, router_vars, ollama_vars, speaker_vars, handler_vars,
                 stream_vars>>
beside_speakers == <<google_available, use_google_tts, tts_call, router_vars,
                     ollama_vars, calc_vars, handler_vars, stream_vars>>
beside_handlers == <<tts_vars, router_vars, ollama_vars, calc_vars, speaker_vars,
                     stream_vars>>
beside_stream == <<tts_vars, router_vars, ollama_vars, calc_vars, speaker_vars,
                   handler_vars>>

-----------------------------------------------------------------------------
(* Bounds of the model. *)

\* the longest command, in phrases of RouterPhrases
MaxChunks == 2
\* the longest TTS voice command, in phrases of VoicePhrases
MaxVoiceChunks == 2
\* speak is not called once fallback_count has reached this value
MaxFallback == 3

-----------------------------------------------------------------------------
(* Python values. *)

None == <<>>
Some(v) == <<v>>
IsNone(o) == o = <<>>
Get(o) == o[1]

\* str.lower(): the vocabulary's upper-case words, lowered
LowerWord(w) ==
    CASE w = "HELP" -> "help"
      [] w = "Use" -> "use"
      [] w = "Llama3" -> "llama3"
      [] w = "NPR" -> "npr"
      [] w = "Visualizer" -> "visualizer"
      [] w = "Switch" -> "switch"
      [] OTHER -> w

Lower(s) == [i \in DOMAIN s |-> LowerWord(s[i])]

RECURSIVE LStrip(_)
LStrip(s) == IF s # <<>> /\ Head(s) = " " THEN LStrip(Tail(s)) ELSE s

RECURSIVE RStrip(_)
RStrip(s) ==
    IF s # <<>> /\ s[Len(s)] = " " THEN RStrip(SubSeq(s, 1, Len(s) - 1)) ELSE s

\* str.strip()
Strip(s) == RStrip(LStrip(s))

\* p in s, for strings
Contains(s, p) ==
    \E i \in 1..(Len(s) - Len(p) + 1) : SubSeq(s, i, i + Len(p) - 1) = p

\* s.startswith(p)
StartsWith(s, p) == Len(p) <= Len(s) /\ SubSeq(s, 1, Len(p)) = p

\* any(phrase in s for phrase in phrases)
ContainsAny(s, phrases) == \E p \in phrases : Contains(s, p)

RECURSIVE Concat(_)
Concat(ss) == IF ss = <<>> THEN <<>> ELSE Head(ss) \o Concat(Tail(ss))

\* the sequences of at most n elements of S
RECURSIVE SeqsUpTo(_, _)
SeqsUpTo(S, n) ==
    IF n = 0 THEN {<<>>}
    ELSE LET shorter == SeqsUpTo(S, n - 1)
         IN  shorter \cup {Append(s, x) : s \in shorter, x \in S}

-----------------------------------------------------------------------------
(* handlers/tts_handler.py: TTSManager and the module's functions. *)

\* the manager's fields, as one value
TTSState ==
    [google_available |-> google_available,
     use_google_tts   |-> use_google_tts,
     fallback_count   |-> fallback_count]

\* "not text.strip()"
NoTextIgnoringWhitespaceOnly(text) == text = <<>>

NoText(text) == Strip(text) = <<>>

\* "not force_fallback and self.use_google_tts and self.google_available"
TriesGoogleIgnoringPreference(st, force_fallback) ==
    ~force_fallback /\ st.google_available

TriesGoogle(st, force_fallback) ==
    ~force_fallback /\ st.use_google_tts /\ st.google_available

\* fallback_count when speak is past the Google branch
CountOnlyWhenSaySucceeds(st, tries, g_ok, say_ok) ==
    IF tries /\ ~g_ok /\ say_ok THEN st.fallback_count + 1 ELSE st.fallback_count

CountAfterGoogle(st, tries, g_ok, say_ok) ==
    IF tries /\ ~g_ok THEN st.fallback_count + 1 ELSE st.fallback_count

\* TTSManager.speak.  g_ok and say_ok are what _google_tts and _say_fallback
\* return if they are called.  The value: the manager's state after the call,
\* the returned dict, and the external speech paths invoked, in order.
speak(st, text, force_fallback, g_ok, say_ok) ==
    IF NoText(text)
    THEN [st |-> st,
          ret |-> [success |-> FALSE, error |-> "No text provided", method |-> "none"],
          calls |-> <<>>]
    ELSE LET tries == TriesGoogle(st, force_fallback)
             count == CountAfterGoogle(st, tries, g_ok, say_ok)
             after == [st EXCEPT !.fallback_count = count]
         IN  IF tries /\ g_ok
             THEN [st |-> st,
                   ret |-> [success |-> TRUE, method |-> "google_tts",
                            fallback_count |-> st.fallback_count],
                   calls |-> <<"_google_tts">>]
             ELSE LET calls == (IF tries THEN <<"_google_tts">> ELSE <<>>)
                               \o <<"_say_fallback">>
                  IN  IF say_ok
                      THEN [st |-> after,
                            ret |-> [success |-> TRUE,
                                     method |-> IF ~force_fallback
                                                THEN "say_fallback" ELSE "say_direct",
                                     fallback_count |-> count],
                            calls |-> calls]
                      ELSE [st |-> after,
                            ret |-> [success |-> FALSE,
                                     error |-> "Both TTS methods failed",
                                     method |-> "none"],
                            calls |-> calls]

\* TTSManager.set_google_preference
set_google_preference_resetting_count(st, use_google) ==
    [st EXCEPT !.use_google_tts = use_google, !.fallback_count = 0]

set_google_preference_reprobing(st, use_google) ==
    [st EXCEPT !.use_google_tts = use_google, !.google_available = use_google]

set_google_preference(st, use_google) ==
    [st EXCEPT !.use_google_tts = use_google]

\* TTSManager.get_status
get_status(st) ==
    [google_available |-> st.google_available,
     google_preferred |-> st.use_google_tts,
     fallback_count   |-> st.fallback_count]

\* the phrase lists of handle_tts_command
GooglePhrases ==
    {<<"use", "google", "voice">>, <<"switch", "to", "google">>, <<"google", "tts">>}
LocalPhrases ==
    {<<"use", "local", "voice">>, <<"switch", "to", "say">>, <<"use", "say", "command">>}
StatusPhrases ==
    {<<"tts", "status">>, <<"voice", "status">>, <<"what", "voice">>}
TestPhrases ==
    {<<"test", "voice">>, <<"test", "tts">>, <<"test", "speech">>}

TestSentence ==
    <<"This", "is", "a", "test", "of", "the", "text", "to", "speech", "system.">>

\* the branch of handle_tts_command a command takes
TtsBranch(text_command) ==
    LET command_lower == Strip(Lower(text_command))
    IN  IF ContainsAny(command_lower, GooglePhrases) THEN "google"
        ELSE IF ContainsAny(command_lower, LocalPhrases) THEN "local"
        ELSE IF ContainsAny(command_lower, StatusPhrases) THEN "status"
        ELSE IF ContainsAny(command_lower, TestPhrases) THEN "test"
        ELSE "none"

\* the sentence of the status reply that names the current voice
CurrentVoice(status) ==
    IF status.google_preferred /\ status.google_available
    THEN "Google text to speech"
    ELSE IF status.google_preferred /\ ~status.google_available
    THEN "Google text to speech (but using say fallback - no credentials)"
    ELSE "local say command"

\* handle_tts_command.  The value: the manager's state after the call, the
\* returned dict or None, the external speech paths invoked, the branch taken.
handle_tts_command(st, text_command, g_ok, say_ok) ==
    LET branch == TtsBranch(text_command)
    IN  CASE branch = "google" ->
               [st |-> set_google_preference(st, TRUE),
                ret |-> Some([spoken_response |-> "Switched to Google text to speech.",
                              opened_url |-> None,
                              additional_context |-> "TTS preference changed to Google"]),
                calls |-> <<>>, branch |-> branch]
          [] branch = "local" ->
               [st |-> set_google_preference(st, FALSE),
                ret |-> Some([spoken_response |-> "Switched to local say command.",
                              opened_url |-> None,
                              additional_context |-> "TTS preference changed to say"]),
                calls |-> <<>>, branch |-> branch]
          [] branch = "status" ->
               LET status == get_status(st)
               IN  [st |-> st,
                    ret |-> Some([spoken_response |->
                                      [current |-> CurrentVoice(status),
                                       fell_back |-> IF status.fallback_count > 0
                                                     THEN Some(status.fallback_count)
                                                     ELSE None],
                                  opened_url |-> None,
                                  additional_context |-> status]),
                    calls |-> <<>>, branch |-> branch]
          [] branch = "test" ->
               LET spoken == speak(st, TestSentence, FALSE, g_ok, say_ok)
               IN  [st |-> spoken.st,
                    ret |-> Some([spoken_response |-> "Voice test completed.",
                                  opened_url |-> None,
                                  additional_context |-> spoken.ret]),
                    calls |-> spoken.calls, branch |-> branch]
          [] OTHER ->
               [st |-> st, ret |-> None, calls |-> <<>>, branch |-> branch]

-----------------------------------------------------------------------------
(* The calls made on the TTS module. *)

\* the texts speak is called with: empty, whitespace only, and two with words
Texts == {<<>>, <<" ">>, <<"hello">>, <<"hello", " ">>}

\* the phrases voice commands are made of
VoicePhrases ==
    {<<"use", "google", "voice">>, <<"use", "local", "voice">>,
     <<"switch", "to", "say">>, <<"tts", "status">>, <<"test", "voice">>,
     <<"hello">>}

VoiceCommands ==
    {Concat(chunks) : chunks \in SeqsUpTo(VoicePhrases, MaxVoiceChunks)}
    \cup {<<"Use", "google", "voice">>, <<" ", "what", "voice", " ">>}

\* the last preference command processed, after a call of handle_tts_command
\* that took `branch`
LastPrefCommand(branch) ==
    IF branch \in {"google", "local"} THEN branch ELSE tts_call.last_pref

InitTTS ==
    /\ google_available \in BOOLEAN     \* _check_google_credentials
    /\ use_google_tts = TRUE
    /\ fallback_count = 0
    /\ tts_call = [op |-> "__init__", pre |-> None, text |-> <<>>, force |-> FALSE,
                   ret |-> None, calls |-> <<>>, branch |-> "none",
                   last_pref |-> "none"]

\* speak_text(text, force_fallback)
SpeakText(text, force_fallback, g_ok, say_ok) ==
    LET r == speak(TTSState, text, force_fallback, g_ok, say_ok)
    IN  /\ r.st.fallback_count <= MaxFallback
        /\ google_available' = r.st.google_available
        /\ use_google_tts' = r.st.use_google_tts
        /\ fallback_count' = r.st.fallback_count
        /\ tts_call' = [op |-> "speak", pre |-> Some(TTSState), text |-> text,
                        force |-> force_fallback, ret |-> Some(r.ret),
                        calls |-> r.calls, branch |-> "none",
                        last_pref |-> tts_call.last_pref]
        /\ UNCHANGED beside_tts

\* set_tts_preference(use_google)
SetTtsPreference(use_google) ==
    LET st == set_google_preference(TTSState, use_google)
    IN  /\ google_available' = st.google_available
        /\ use_google_tts' = st.use_google_tts
        /\ fallback_count' = st.fallback_count
        /\ tts_call' = [op |-> "set_google_preference", pre |-> Some(TTSState),
                        text |-> <<>>, force |-> FALSE, ret |-> None,
                        calls |-> <<>>, branch |-> "none",
                        last_pref |-> "set_tts_preference"]
        /\ UNCHANGED beside_tts

\* get_tts_status()
GetTtsStatus ==
    /\ tts_call' = [op |-> "get_status", pre |-> Some(TTSState), text |-> <<>>,
                    force |-> FALSE, ret |-> Some(get_status(TTSState)),
                    calls |-> <<>>, branch |-> "none",
                    last_pref |-> tts_call.last_pref]
    /\ UNCHANGED <<google_available, use_google_tts, fallback_count>>
    /\ UNCHANGED beside_tts

\* handle_tts_command(text_command); the speech paths have an outcome only
\* in the branch that speaks
HandleTtsCommand(text_command) ==
    \E g_ok, say_ok \in IF TtsBranch(text_command) = "test" THEN BOOLEAN ELSE {TRUE} :
        LET r == handle_tts_command(TTSState, text_command, g_ok, say_ok)
        IN  /\ r.st.fallback_count <= MaxFallback
            /\ google_available' = r.st.google_available
            /\ use_google_tts' = r.st.use_google_tts
            /\ fallback_count' = r.st.fallback_count
            /\ tts_call' = [op |-> "handle_tts_command", pre |-> Some(TTSState),
                            text |-> <<>>, force |-> FALSE, ret |-> r.ret,
                            calls |-> r.calls, branch |-> r.branch,
                            last_pref |-> LastPrefCommand(r.branch)]
            /\ UNCHANGED beside_tts

NextTTS ==
    \/ \E text \in Texts, force_fallback, g_ok, say_ok \in BOOLEAN :
           SpeakText(text, force_fallback, g_ok, say_ok)
    \/ \E use_google \in BOOLEAN : SetTtsPreference(use_google)
    \/ GetTtsStatus
    \/ \E text_command \in VoiceCommands : HandleTtsCommand(text_command)

-----------------------------------------------------------------------------
(* julie_julie_app.py: the command handlers. *)

Digits == <<"0", "1", "2", "3", "4", "5", "6", "7", "8", "9">>

\* a number below 100 in two digits, as strftime's %I, %M and %d print it
Pad2(n) == <<Digits[(n \div 10) + 1], Digits[(n % 10) + 1]>>

\* now.strftime('%I:%M %p')
StrftimeIMp(now) ==
    LET hour12 == IF now.hour % 12 = 0 THEN 12 ELSE now.hour % 12
    IN  Pad2(hour12) \o <<":">> \o Pad2(now.minute)
            \o <<" ", IF now.hour < 12 THEN "AM" ELSE "PM">>

\* s.replace(' ', c), in text where the tokens are joined by single spaces
RECURSIVE ReplaceSpaces(_, _)
ReplaceSpaces(s, c) ==
    IF Len(s) <= 1 THEN s
    ELSE <<Head(s), c>> \o ReplaceSpaces(Tail(s), c)

\* an f-string: its literal text and the values put into it
Text(template, args) == [template |-> template, args |-> args]

handle_time_command(now) ==
    [spoken_response |-> Text("The current time is {}.", <<StrftimeIMp(now)>>),
     opened_url |-> None,
     additional_context |-> Some(Text("Today is {}.", <<now.date>>))]

DefaultLocation == <<"Hartford,", "Arkansas">>

\* handle_weather_command; `outcome` is what requests.get does: a status
\* code, or the exception it raises
handle_weather_command(location_arg, outcome) ==
    LET location == IF IsNone(location_arg) \/ Get(location_arg) = <<>>
                    THEN DefaultLocation ELSE Get(location_arg)
    IN  CASE outcome = "200" ->
               [spoken_response |->
                    Text("The current weather in {} is {}.", <<location, <<"weather_text">>>>),
                opened_url |-> None,
                additional_context |-> Some(Text("Data provided by wttr.in.", <<>>))]
          [] outcome = "503" ->
               [spoken_response |->
                    Text("I couldn't get detailed weather for {} right now.", <<location>>),
                opened_url |-> Some(Text("https://www.weather.com/weather/today/l/{}",
                                         <<ReplaceSpaces(location, "+")>>)),
                additional_context |-> Some(Text("Opening a weather website instead.", <<>>))]
          [] outcome = "RequestException" ->
               [spoken_response |->
                    Text("I'm having trouble connecting to the weather service for {}.",
                         <<location>>),
                opened_url |-> Some(Text("https://weather.com", <<>>)),
                additional_context |-> Some(Text("Opening a weather website instead.", <<>>))]
          [] OTHER ->
               [spoken_response |->
                    Text("I'm sorry, I couldn't fetch the weather information for {}.",
                         <<location>>),
                opened_url |-> Some(Text("https://weather.com", <<>>)),
                additional_context |->
                    Some(Text("There was an error with the weather service.", <<>>))]

handle_search_command(query) ==
    [spoken_response |-> Text("I've opened search results for {}.", <<query>>),
     opened_url |-> Some(Text("https://www.google.com/search?q={}",
                              <<ReplaceSpaces(query, "+")>>)),
     additional_context |-> None]

handle_wiki_command(topic) ==
    [spoken_response |-> Text("I've opened the Wikipedia page for {}.", <<topic>>),
     opened_url |-> Some(Text("https://en.wikipedia.org/wiki/{}",
                              <<ReplaceSpaces(topic, "_")>>)),
     additional_context |-> None]

handle_youtube_command(query) ==
    [spoken_response |-> Text("I've opened YouTube results for {}.", <<query>>),
     opened_url |-> Some(Text("https://www.youtube.com/results?search_query={}",
                              <<ReplaceSpaces(query, "+")>>)),
     additional_context |-> None]

handle_help_command ==
    [spoken_response |->
         Text("I can help you with time, weather, searches, YouTube, and opening websites. Ask me 'What can you do?' for more details.",
              <<>>),
     opened_url |-> None,
     additional_context |-> Some(Text("I can help you with: ...", <<>>))]

\* the words of the vocabulary that start with a URL scheme, or hold a dot
SchemeWords == {"https://example.org"}
DottedWords == {"youtube.com", "https://example.org"}

handle_open_website_command(website) ==
    LET url == IF website # <<>> /\ Head(website) \in SchemeWords
               THEN website
               ELSE IF \A i \in DOMAIN website : website[i] \notin DottedWords
               THEN <<"https://www.">> \o website \o <<".com">>
               ELSE <<"https://">> \o website
    IN  [spoken_response |-> Text("Opening {}", <<url>>),
         opened_url |-> Some(Text("{}", <<url>>)),
         additional_context |-> None]

-----------------------------------------------------------------------------
(* julie_julie_app.py: the patterns of process_command_from_user, on the    *)
(* normalized command command_lower.                                        *)

\* the words of the vocabulary that hold a character outside [a-zA-Z0-9 ]
PunctuatedWords == {"what's", "youtube.com", "https://example.org"}

Words(s) == {s[i] : i \in DOMAIN s}

\* where the phrase p begins in s with text after it: the match of "p (.*)"
FollowedAt(s, p) ==
    {i \in 1..Len(s) : i + Len(p) <= Len(s) /\ SubSeq(s, i, i + Len(p) - 1) = p}

Min(S) == CHOOSE x \in S : \A y \in S : x <= y
Max(S) == CHOOSE x \in S : \A y \in S : x >= y

\* the group of re.search("p (.*)", s), stripped; None without a match
AfterPhrase(s, p) ==
    IF FollowedAt(s, p) = {} THEN None
    ELSE Some(Strip(SubSeq(s, Min(FollowedAt(s, p)) + Len(p), Len(s))))

\* the group of re.search("a (.*) b", s), stripped; None without a match
BetweenPhrases(s, a, b) ==
    LET starts == FollowedAt(s, a)
        ends == {j \in 1..(Len(s) - Len(b) + 1) :
                     /\ SubSeq(s, j, j + Len(b) - 1) = b
                     /\ starts # {}
                     /\ j >= Min(starts) + Len(a) + 1}
    IN  IF starts = {} \/ ends = {} THEN None
        ELSE Some(Strip(SubSeq(s, Min(starts) + Len(a), Max(ends) - 1)))

\* time_patterns
MatchesTime(c) ==
    \/ Contains(c, <<"what's", "the", "time">>)
    \/ Contains(c, <<"what", "is", "the", "time">>)
    \/ Contains(c, <<"what", "time", "is", "it">>)
    \/ Contains(c, <<"current", "time">>)
    \/ Contains(c, <<"time", "now">>)
    \/ c = <<"time">>

\* weather_patterns
MatchesWeather(c) ==
    \/ Contains(c, <<"what's", "the", "weather">>)
    \/ Contains(c, <<"what", "is", "the", "weather">>)
    \/ \E i \in 1..(Len(c) - 1) :
           /\ c[i] = "weather"
           /\ \/ c[i + 1] = "now"
              \/ c[i + 1] \in {"like", "in", "forecast"} /\ i + 2 <= Len(c)
    \/ c # <<>> /\ c[Len(c)] = "weather"
    \/ "forecast" \in Words(c)
    \/ "temperature" \in Words(c)

\* the location the weather branch extracts, or None
WeatherLocation(c) ==
    LET hits == {i \in 1..(Len(c) - 2) :
                     /\ c[i] \in {"weather", "forecast"}
                     /\ c[i + 1] \in {"in", "for"}
                     /\ \A k \in (i + 2)..Len(c) : c[k] \notin PunctuatedWords}
        ins == {i \in 1..(Len(c) - 1) : c[i] = "in"}
    IN  IF hits # {} THEN Some(Strip(SubSeq(c, Min(hits) + 2, Len(c))))
        ELSE IF ins # {} THEN Some(Strip(SubSeq(c, Min(ins) + 1, Len(c))))
        ELSE None

\* the condition of the search branch
MatchesSearch(c) ==
    \/ c # <<>> /\ Head(c) \in {"search", "google", "find"}
    \/ StartsWith(c, <<"look", "up">>)
    \/ Contains(c, <<"search", "for">>)
    \/ Contains(c, <<"look", "up">>)

SearchPrefixes ==
    <<<<"search", "for">>, <<"search">>, <<"look", "up">>, <<"google">>, <<"find">>>>

\* the query the search branch extracts: the loop stops at the first prefix
\* the command starts with or contains.  The commands of the model carry no
\* whitespace before a prefix, so text_command[len(prefix):] cuts at a token.
SearchQuery(text_command, c) ==
    LET found == {k \in DOMAIN SearchPrefixes : Contains(c, SearchPrefixes[k])}
    IN  IF found = {} THEN text_command
        ELSE LET prefix == SearchPrefixes[Min(found)]
                 at == Min({i \in 1..(Len(c) - Len(prefix) + 1) :
                               SubSeq(c, i, i + Len(prefix) - 1) = prefix})
             IN  IF StartsWith(c, prefix)
                 THEN Strip(SubSeq(text_command, Len(prefix) + 1, Len(text_command)))
                 ELSE Strip(SubSeq(c, at + Len(prefix), Len(c)))

\* youtube_patterns, in order: the query of the first that matches, or None
YoutubeQuery(c) ==
    LET groups == <<AfterPhrase(c, <<"youtube">>),
                    BetweenPhrases(c, <<"play">>, <<"on", "youtube">>),
                    AfterPhrase(c, <<"search", "youtube", "for">>),
                    BetweenPhrases(c, <<"watch">>, <<"on", "youtube">>)>>
        hits == {k \in DOMAIN groups : ~IsNone(groups[k])}
    IN  IF hits = {} THEN None ELSE groups[Min(hits)]

\* info_patterns, in order: the topic of the first that matches, or None
InfoTopic(c) ==
    LET groups == <<AfterPhrase(c, <<"tell", "me", "about">>),
                    AfterPhrase(c, <<"who", "is">>),
                    AfterPhrase(c, <<"what", "is">>),
                    AfterPhrase(c, <<"define">>)>>
        hits == {k \in DOMAIN groups : ~IsNone(groups[k])}
    IN  IF hits = {} THEN None ELSE groups[Min(hits)]

\* command_lower.startswith("open ")
MatchesOpen(c) == Len(c) >= 2 /\ Head(c) = "open"

\* help_patterns
MatchesHelp(c) ==
    \/ Words(c) \cap {"help", "commands", "features", "capabilities"} # {}
    \/ Contains(c, <<"what", "can", "you", "do">>)

-----------------------------------------------------------------------------
(* julie_julie_app.py: process_command_from_user.                           *)
(*                                                                          *)
(* A run of the function is a record r: the local `result` (None or a       *)
(* dict), the branch that set it, the calls made so far in order (log),     *)
(* the number of handler calls, and whether an exception has left the       *)
(* function.  env holds what the surroundings do during the run: the clock, *)
(* the weather service's answer, whether `say` and the browser succeed, and *)
(* which handler call, if any, raises.                                      *)

StartRun == [result |-> None, source |-> "none", log |-> <<>>, calls |-> 0,
             raised |-> FALSE, error |-> None]

\* str(e) of the exception that leaves the handler `name`
ExceptionText(name) == <<"error", "in", name>>

\* `not text_command`
IsNullCommand(text_command) == IsNone(text_command)

IsEmptyCommand(text_command) == IsNone(text_command) \/ Get(text_command) = <<>>

\* the dict returned for an empty command
EmptyCommandResult ==
    [spoken_response |-> Text("I didn't receive any command. Please try again.", <<>>),
     opened_url |-> None,
     additional_context |-> None]

\* "result = handle_x(...)" where the handler swallows its own exception
\* and hands back nothing, so that the run goes on
CallHandlerCatching(r, env, name, value, external) ==
    IF env.fault = r.calls + 1
    THEN [r EXCEPT !.calls = @ + 1, !.log = @ \o <<name, "raise">>]
    ELSE [r EXCEPT !.result = Some(value), !.source = name, !.calls = @ + 1,
                   !.log = @ \o <<name>> \o external]

\* "result = handle_x(...)": the call either returns the handler's dict, or
\* raises, and nothing around the call catches
CallHandler(r, env, name, value, external) ==
    IF env.fault = r.calls + 1
    THEN [r EXCEPT !.raised = TRUE, !.error = Some(ExceptionText(name)),
                   !.calls = @ + 1, !.log = @ \o <<name, "raise">>]
    ELSE [r EXCEPT !.result = Some(value), !.source = name, !.calls = @ + 1,
                   !.log = @ \o <<name>> \o external]

TimeBranch(r, env, text_command, c) ==
    IF ~r.raised /\ MatchesTime(c)
    THEN CallHandler(r, env, "handle_time_command", handle_time_command(env.now), <<>>)
    ELSE r

WeatherBranch(r, env, text_command, c) ==
    IF ~r.raised /\ MatchesWeather(c)
    THEN CallHandler(r, env, "handle_weather_command",
                     handle_weather_command(WeatherLocation(c), env.weather),
                     <<"requests.get">>)
    ELSE r

SearchBranch(r, env, text_command, c) ==
    IF ~r.raised /\ MatchesSearch(c)
    THEN CallHandler(r, env, "handle_search_command",
                     handle_search_command(SearchQuery(text_command, c)), <<>>)
    ELSE r

YoutubeBranch(r, env, text_command, c) ==
    IF ~r.raised /\ ~IsNone(YoutubeQuery(c))
    THEN CallHandler(r, env, "handle_youtube_command",
                     handle_youtube_command(Get(YoutubeQuery(c))), <<>>)
    ELSE r

\* "if not result:" guards the information patterns only
InfoBranch(r, env, text_command, c) ==
    IF ~r.raised /\ IsNone(r.result) /\ ~IsNone(InfoTopic(c))
    THEN CallHandler(r, env, "handle_wiki_command",
                     handle_wiki_command(Get(InfoTopic(c))), <<>>)
    ELSE r

\* website = text_command[5:].strip()
OpenBranch(r, env, text_command, c) ==
    IF ~r.raised /\ MatchesOpen(c)
    THEN CallHandler(r, env, "handle_open_website_command",
                     handle_open_website_command(Strip(Tail(text_command))), <<>>)
    ELSE r

HelpBranch(r, env, text_command, c) ==
    IF ~r.raised /\ MatchesHelp(c)
    THEN CallHandler(r, env, "handle_help_command", handle_help_command, <<>>)
    ELSE r

\* the reply for an unrecognized command
UnrecognizedReply(text_command) ==
    [spoken_response |->
         Text("I'm not sure how to handle '{}'. Try asking for help to see what I can do.",
              <<text_command>>),
     opened_url |-> None,
     additional_context |-> None]

\* the fallback without its guard "if not result:"
FallbackBranchUnguarded(r, env, text_command, c) ==
    IF ~r.raised
    THEN [r EXCEPT !.result = Some(UnrecognizedReply(text_command)),
                   !.source = "fallback", !.log = @ \o <<"fallback">>]
    ELSE r

\* "if not result:" the fallback for an unrecognized command
FallbackBranch(r, env, text_command, c) ==
    IF ~r.raised /\ IsNone(r.result)
    THEN [r EXCEPT !.result = Some(UnrecognizedReply(text_command)),
                   !.source = "fallback", !.log = @ \o <<"fallback">>]
    ELSE r

\* F(v), with v evaluated once before F is applied to its value: the
\* statements of a function run one after the other, each on the state the
\* one before left
Then(v, F(_)) == CHOOSE after \in {F(before) : before \in {v}} : TRUE

\* the branches in the order of the code
Dispatch(env, text_command, c) ==
    Then(Then(Then(Then(Then(Then(Then(
        TimeBranch(StartRun, env, text_command, c),
        LAMBDA r : WeatherBranch(r, env, text_command, c)),
        LAMBDA r : SearchBranch(r, env, text_command, c)),
        LAMBDA r : YoutubeBranch(r, env, text_command, c)),
        LAMBDA r : InfoBranch(r, env, text_command, c)),
        LAMBDA r : OpenBranch(r, env, text_command, c)),
        LAMBDA r : HelpBranch(r, env, text_command, c)),
        LAMBDA r : FallbackBranch(r, env, text_command, c))

\* full_spoken_response: the answer, and the context when there is one
FullSpokenResponse(result) ==
    IF result.spoken_response.template = "" THEN result.additional_context
    ELSE <<result.spoken_response>> \o result.additional_context

\* `say` started and not waited for
SpeakAnswerInBackground(r, env) ==
    IF ~r.raised /\ FullSpokenResponse(Get(r.result)) # <<>>
    THEN [r EXCEPT !.log = @ \o <<"say">>]
    ELSE r

\* a router that lets the failure of `say` leave the function
SpeakAnswerUncaught(r, env) ==
    IF ~r.raised /\ FullSpokenResponse(Get(r.result)) # <<>>
    THEN IF env.say_ok THEN [r EXCEPT !.log = @ \o <<"say", "say exited">>]
         ELSE [r EXCEPT !.raised = TRUE, !.error = Some(ExceptionText("say")),
                        !.log = @ \o <<"say", "say failed">>]
    ELSE r

\* "1. Speak the answer": subprocess.run starts `say` and returns, or raises
\* into the except clause, when `say` is over
SpeakAnswer(r, env) ==
    IF ~r.raised /\ FullSpokenResponse(Get(r.result)) # <<>>
    THEN [r EXCEPT !.log = @ \o <<"say", IF env.say_ok THEN "say exited"
                                                       ELSE "say failed">>]
    ELSE r

\* "2. Open webpage if applicable"
OpenWebpage(r, env) ==
    IF ~r.raised /\ ~IsNone(Get(r.result).opened_url)
    THEN [r EXCEPT !.log = @ \o <<"webbrowser.open">>
                               \o IF env.open_ok THEN <<>> ELSE <<"open failed">>]
    ELSE r

\* what a run of process_command_from_user comes to: the dict it returns
\* (outcome "returned") or the exception that leaves it ("raised")
NotCalled == [outcome |-> "not called", arg |-> None, ret |-> None,
              error |-> None, source |-> "none", log |-> <<>>, calls |-> 0]

\* the end of the function: the exception leaves it, or the dict is returned
FinishRun(r, raw) ==
    IF r.raised
    THEN [outcome |-> "raised", arg |-> Some(raw), ret |-> None,
          error |-> r.error, source |-> r.source,
          log |-> r.log, calls |-> r.calls]
    ELSE [outcome |-> "returned", arg |-> Some(raw),
          ret |-> Some([spoken_response |-> Get(r.result).spoken_response,
                        opened_url |-> Get(r.result).opened_url,
                        processed_command |-> raw,
                        additional_context |-> Get(r.result).additional_context]),
          error |-> None, source |-> r.source, log |-> r.log \o <<"return">>,
          calls |-> r.calls]

process_command_from_user(text_command, env) ==
    IF IsEmptyCommand(text_command)
    THEN [outcome |-> "returned", arg |-> text_command,
          ret |-> Some(EmptyCommandResult), error |-> None,
          source |-> "empty", log |-> <<"return">>, calls |-> 0]
    ELSE Then(Then(Then(
             Dispatch(env, Get(text_command), Strip(Lower(Get(text_command)))),
             LAMBDA r : SpeakAnswer(r, env)),
             LAMBDA r : OpenWebpage(r, env)),
             LAMBDA r : FinishRun(r, Get(text_command)))

\* A request to an endpoint: its encoding ("json" when request.is_json,
\* else "form"), whether the body has a text_command key or field, and the
\* value it carries (None for a JSON null).

\* the endpoint that takes "help" for the command when none was sent
RequestTextCommandDefaulting(req) ==
    IF req.present THEN req.text_command ELSE Some(<<"help">>)

\* the endpoint that strips the command it read before it uses it
RequestTextCommandStripped(req) ==
    IF req.present /\ ~IsNone(req.text_command)
    THEN Some(Strip(Get(req.text_command)))
    ELSE None

\* data.get('text_command') for JSON, request.form.get('text_command') for
\* a form: the value, or None when the key or the field is missing
RequestTextCommand(req) ==
    IF req.present THEN req.text_command ELSE None

\* the endpoint whose except clause answers as if the command had succeeded
AnswerErrorAsSuccess(error_template, run) ==
    [run |-> run, routed |-> 1,
     http |-> Some([code |-> 200, status |-> "success",
                    message |-> Text("Command processed", <<>>),
                    details |-> run.ret])]

\* the except clause of an endpoint
AnswerError(error_template, run) ==
    [run |-> run, routed |-> 1,
     http |-> Some([code |-> 500, status |-> "error",
                    message |-> Text(error_template, <<Get(run.error)>>),
                    details |-> None])]

\* the response of an endpoint after it has called the router
AnswerOf(error_template, run) ==
    IF run.outcome = "raised"
    THEN AnswerError(error_template, run)
    ELSE [run |-> run, routed |-> 1,
          http |-> Some([code |-> 200, status |-> "success",
                         message |-> Text("Command processed", <<>>),
                         details |-> run.ret])]

\* the body the two endpoints share: the run of the router, if any, the
\* number of calls of the router, and the HTTP response
ServeCommand(error_template, req, env) ==
    LET text_command == RequestTextCommand(req)
    IN  IF ~IsEmptyCommand(text_command)
        THEN Then(process_command_from_user(text_command, env),
                  LAMBDA run : AnswerOf(error_template, run))
        ELSE [run |-> NotCalled, routed |-> 0,
              http |-> Some([code |-> 400, status |-> "error",
                             message |-> Text("No text_command provided", <<>>),
                             details |-> None])]

activate_listening_endpoint(req, env) ==
    ServeCommand("Error processing activation: {}", req, env)

command_endpoint(req, env) ==
    ServeCommand("Error processing command: {}", req, env)

-----------------------------------------------------------------------------
(* The commands sent to the router, and its surroundings. *)

\* the phrases commands are made of
RouterPhrases ==
    {<<"what", "time", "is", "it">>, <<"temperature">>, <<"search">>,
     <<"youtube">>, <<"define">>, <<"open">>, <<"help">>, <<"paris">>}

\* text_command: None, or a string
RouterCommands ==
    {None}
    \cup {Some(Concat(chunks)) : chunks \in SeqsUpTo(RouterPhrases, MaxChunks)}
    \cup {Some(<<" ">>), Some(<<" ", "time", " ">>), Some(<<"HELP">>)}

Midnight == [hour |-> 0, minute |-> 5, date |-> <<"Sunday,", "November", "01,", "2026">>]
Afternoon == [hour |-> 13, minute |-> 30, date |-> <<"Monday,", "November", "02,", "2026">>]

Clocks == {Midnight, Afternoon}

WeatherOutcomes == {"200", "503", "RequestException", "Exception"}

\* What the surroundings can do during the run for a command.  The clock is
\* read by the time branch only and the weather service is asked by the
\* weather branch only: for a command that reaches neither, one value stands
\* for all.  fault: the handler call that raises, counted from 1; 0 for none.
EnvsFor(text_command) ==
    LET c == IF IsEmptyCommand(text_command) THEN <<>>
             ELSE Strip(Lower(Get(text_command)))
    IN  [now : IF MatchesTime(c) THEN Clocks ELSE {Midnight},
         weather : IF MatchesWeather(c) THEN WeatherOutcomes ELSE {"200"},
         say_ok : BOOLEAN, open_ok : BOOLEAN, fault : {0, 1, 2}]

\* how a command reaches the router: a direct call, or a POST to one of the
\* two endpoints
Endpoints == {"/command", "/activate_listening"}
Vias == {"call"} \cup Endpoints

\* the requests: a direct call with its argument; a JSON body without the
\* key, or with it and null or a string; a form without the field, or with
\* it and a string
Requests ==
    {[via |-> "call", encoding |-> "none", present |-> TRUE, text_command |-> t] :
         t \in RouterCommands}
    \cup {[via |-> via, encoding |-> encoding, present |-> FALSE,
            text_command |-> None] : via \in Endpoints, encoding \in {"json", "form"}}
    \cup {[via |-> via, encoding |-> "json", present |-> TRUE, text_command |-> t] :
              via \in Endpoints, t \in RouterCommands}
    \cup {[via |-> via, encoding |-> "form", present |-> TRUE, text_command |-> t] :
              via \in Endpoints, t \in RouterCommands \ {None}}

InitRouter ==
    /\ request = None
    /\ response = None
    /\ memo = None

\* a caller submits a command
Submit(req) ==
    /\ IsNone(request)
    /\ IsNone(response)
    /\ request' = Some(req)
    /\ UNCHANGED <<response, memo>>
    /\ UNCHANGED beside_router

\* the caller of the last command submits the same command again
Resubmit ==
    /\ IsNone(request)
    /\ ~IsNone(response)
    /\ request' = Some(Get(response).request)
    /\ memo' = Some([text_command |-> Get(response).text_command,
                     outcome |-> Get(response).run.outcome,
                     source |-> Get(response).run.source])
    /\ response' = None
    /\ UNCHANGED beside_router

\* the response to a request: the request, the command the caller sent, the
\* run of the router and what the endpoint answered
Response(req, run, routed, http) ==
    [request |-> req, via |-> req.via, text_command |-> RequestTextCommand(req),
     run |-> run, routed |-> routed, http |-> http]

\* a direct call of process_command_from_user runs to its end
ProcessCommand ==
    /\ ~IsNone(request)
    /\ Get(request).via = "call"
    /\ \E env \in EnvsFor(Get(request).text_command) :
           response' = Some(Response(Get(request),
                                     process_command_from_user(
                                         Get(request).text_command, env),
                                     1, None))
    /\ request' = None
    /\ UNCHANGED memo
    /\ UNCHANGED beside_router

\* POST /command is served
CommandEndpoint ==
    /\ ~IsNone(request)
    /\ Get(request).via = "/command"
    /\ \E env \in EnvsFor(RequestTextCommand(Get(request))) :
           \E served \in {command_endpoint(Get(request), env)} :
               response' = Some(Response(Get(request), served.run,
                                         served.routed, served.http))
    /\ request' = None
    /\ UNCHANGED memo
    /\ UNCHANGED beside_router

\* POST /activate_listening is served
ActivateListeningEndpoint ==
    /\ ~IsNone(request)
    /\ Get(request).via = "/activate_listening"
    /\ \E env \in EnvsFor(RequestTextCommand(Get(request))) :
           \E served \in {activate_listening_endpoint(Get(request), env)} :
               response' = Some(Response(Get(request), served.run,
                                         served.routed, served.http))
    /\ request' = None
    /\ UNCHANGED memo
    /\ UNCHANGED beside_router

\* the caller has taken the result
TakeResponse ==
    /\ IsNone(request)
    /\ ~IsNone(response)
    /\ response' = None
    /\ memo' = None
    /\ UNCHANGED request
    /\ UNCHANGED beside_router

NextRouter ==
    \/ \E req \in Requests : Submit(req)
    \/ Resubmit
    \/ ProcessCommand
    \/ CommandEndpoint
    \/ ActivateListeningEndpoint
    \/ TakeResponse

-----------------------------------------------------------------------------
(* handlers/ollama_manager.py: OllamaManager.                               *)
(*                                                                          *)
(* The manager's fields are one record: ollama_process (whether it holds a  *)
(* process it started), is_running, auto_start_enabled, model_name.  A      *)
(* model name is text like any other: "llama3.2" is <<"llama3", ".2">>.     *)

\* self.startup_timeout = 30
startup_timeout == 30

\* the names the service can report, in the order it reports them
ServiceModels == <<<<"llama3">>, <<"llama3", ".2">>, <<"mistral">>>>

\* the subsequences of a sequence
RECURSIVE SubLists(_)
SubLists(names) ==
    IF names = <<>> THEN {<<>>}
    ELSE LET rest == SubLists(Tail(names))
         IN  rest \cup {<<Head(names)>> \o l : l \in rest}

\* what list_available_models can return, names only: the models the service
\* holds at the time of the request, or [] when the request fails
ModelLists == SubLists(ServiceModels)

\* OllamaManager.__init__
OllamaAtStart ==
    [ollama_process |-> FALSE, is_running |-> FALSE,
     auto_start_enabled |-> TRUE, model_name |-> <<"llama3", ".2">>]

\* matches = [name for name in model_names if model_name.lower() in name.lower()]
PartialMatches(model_names, model_name) ==
    LET Matches(name) == Contains(Lower(name), Lower(model_name))
    IN  SelectSeq(model_names, Matches)

\* switch_model that settles for the first of several partial matches
switch_model_to_first_match(st, model_name, model_names) ==
    LET matches == PartialMatches(model_names, model_name)
    IN  IF \E i \in DOMAIN model_names : model_names[i] = model_name
        THEN [st |-> [st EXCEPT !.model_name = model_name], ok |-> TRUE]
        ELSE IF Len(matches) >= 1
        THEN [st |-> [st EXCEPT !.model_name = matches[1]], ok |-> TRUE]
        ELSE [st |-> st, ok |-> FALSE]

\* OllamaManager.switch_model; model_names is what list_available_models
\* has returned
switch_model(st, model_name, model_names) ==
    LET matches == PartialMatches(model_names, model_name)
    IN  IF \E i \in DOMAIN model_names : model_names[i] = model_name
        THEN [st |-> [st EXCEPT !.model_name = model_name], ok |-> TRUE]
        ELSE IF Len(matches) = 1
        THEN [st |-> [st EXCEPT !.model_name = matches[1]], ok |-> TRUE]
        ELSE [st |-> st, ok |-> FALSE]

\* what terminate() and wait(timeout=10) do: the process exits in time, or
\* the wait times out and the process is killed, or one of them raises
StopOutcomes == {"exited", "timeout", "raised"}

\* stop_ollama_service with the two assignments at the end of the try block
\* and not in a finally clause
stop_ollama_service_without_finally(st, outcome) ==
    IF st.ollama_process /\ outcome = "exited"
    THEN [st EXCEPT !.ollama_process = FALSE, !.is_running = FALSE]
    ELSE st

\* OllamaManager.stop_ollama_service: the finally clause runs after each of
\* the three outcomes
stop_ollama_service(st, outcome) ==
    IF st.ollama_process
    THEN [st EXCEPT !.ollama_process = FALSE, !.is_running = FALSE]
    ELSE st

\* a loop that never gets past its first attempt
SameAttempt(attempt) == attempt

\* "for attempt in range(self.startup_timeout)": the attempt after this one
NextAttempt(attempt) == attempt + 1

\* ensure_ollama_available that starts the service whatever the setting
AlwaysAutoStart(st) == TRUE

\* "if self.auto_start_enabled:" in ensure_ollama_available
ShouldAutoStart(st) == st.auto_start_enabled

\* the phrase lists of handle_ollama_command
OllamaStartPhrases ==
    {<<"start", "ollama">>, <<"launch", "ollama">>, <<"start", "ai">>}
OllamaStopPhrases ==
    {<<"stop", "ollama">>, <<"shutdown", "ollama">>, <<"stop", "ai">>}
OllamaStatusPhrases ==
    {<<"ollama", "status">>, <<"ai", "status">>, <<"is", "ollama", "running">>}
AutoStartOnPhrases ==
    {<<"enable", "ollama", "auto", "start">>, <<"turn", "on", "auto", "start">>}
AutoStartOffPhrases ==
    {<<"disable", "ollama", "auto", "start">>, <<"turn", "off", "auto", "start">>}
PullPhrases ==
    {<<"pull", "model">>, <<"download", "model">>, <<"update", "model">>}
ListPhrases ==
    {<<"list", "models">>, <<"show", "models">>, <<"available", "models">>}

\* "use " in command_lower: the word, with more text after it
ContainsUseThen(c) == \E i \in 1..(Len(c) - 1) : c[i] = "use"

\* command_lower.split(phrase, 1)[1].strip()
AfterFirst(c, phrase) ==
    LET at == Min({i \in 1..(Len(c) - Len(phrase) + 1) :
                      SubSeq(c, i, i + Len(phrase) - 1) = phrase})
    IN  Strip(SubSeq(c, at + Len(phrase), Len(c)))

\* s.replace("model", "").strip()
WithoutModelWord(s) ==
    LET NotModel(w) == w # "model"
    IN  Strip(SelectSeq(s, NotModel))

\* the branch of handle_ollama_command a command takes
OllamaBranch(text_command) ==
    LET c == Strip(Lower(text_command))
    IN  IF ContainsAny(c, OllamaStartPhrases) THEN "start"
        ELSE IF ContainsAny(c, OllamaStopPhrases) THEN "stop"
        ELSE IF ContainsAny(c, OllamaStatusPhrases) THEN "status"
        ELSE IF ContainsAny(c, AutoStartOnPhrases) THEN "enable"
        ELSE IF ContainsAny(c, AutoStartOffPhrases) THEN "disable"
        ELSE IF ContainsAny(c, PullPhrases) THEN "pull"
        ELSE IF ContainsAny(c, ListPhrases) THEN "list"
        ELSE IF \/ Contains(c, <<"use", "model">>)
                \/ Contains(c, <<"switch", "to">>)
                \/ ContainsUseThen(c) THEN "switch"
        ELSE "none"

\* the model name the switch branch extracts: "" when it extracts none
SwitchRequest(text_command) ==
    LET c == Strip(Lower(text_command))
    IN  IF Contains(c, <<"use", "model">>) THEN AfterFirst(c, <<"use", "model">>)
        ELSE IF Contains(c, <<"switch", "to">>)
        THEN WithoutModelWord(AfterFirst(c, <<"switch", "to">>))
        ELSE LET potential_model == AfterFirst(c, <<"use">>)
             IN  IF Words(potential_model) \cap {"google", "local", "voice", "tts"} = {}
                 THEN potential_model ELSE <<>>

\* ', '.join(names)
RECURSIVE JoinNames(_)
JoinNames(names) ==
    IF names = <<>> THEN <<>>
    ELSE IF Len(names) = 1 THEN Head(names)
    ELSE Head(names) \o <<",">> \o JoinNames(Tail(names))

\* a dict handle_ollama_command returns
OllamaReply(template, args, context) ==
    [spoken_response |-> Text(template, args), opened_url |-> None,
     additional_context |-> context]

\* the reply of the start branch
StartReply(success) ==
    IF success
    THEN OllamaReply("Ollama service started successfully.", <<>>,
                     "Ollama is now running")
    ELSE OllamaReply("Failed to start Ollama service.", <<>>,
                     "Check logs for details")

\* the reply of the status branch
StatusReply(st, running, avail) ==
    OllamaReply(
        IF running /\ avail THEN "Ollama is running with model {}."
        ELSE IF running THEN "Ollama is running but model {} is not available."
        ELSE "Ollama is not running.",
        <<st.model_name,
          <<IF st.auto_start_enabled THEN " Auto-start is enabled."
                                     ELSE " Auto-start is disabled.">>>>,
        "Ollama Status: {status}")

NotRunningReply ==
    OllamaReply("Ollama is not running. Please start it first.", <<>>,
                "Ollama service needed")

\* the branches of handle_ollama_command other than the start branch.
\* env: whether the service answers the probe (running), whether it holds
\* the current model (avail), whether `ollama pull` succeeds (pull_ok), the
\* models it lists (listed, the same list each time the call asks).  The value: the manager's state after the call,
\* the returned dict or None, and the number of HTTP requests and of
\* subprocesses the call made.
handle_ollama_command(st, text_command, env) ==
    LET branch == OllamaBranch(text_command)
        probed == [st EXCEPT !.is_running = env.running]
    IN  CASE branch = "stop" ->
               [st |-> stop_ollama_service(st, env.stop),
                reply |-> Some(OllamaReply("Ollama service stopped.", <<>>,
                                           "Ollama has been shut down")),
                probes |-> 0, spawned |-> 0,
                terminated |-> IF st.ollama_process THEN 1 ELSE 0]
          [] branch = "status" ->
               [st |-> probed,
                reply |-> Some(StatusReply(st, env.running, env.avail)),
                probes |-> 2, spawned |-> 0, terminated |-> 0]
          [] branch = "enable" ->
               [st |-> [st EXCEPT !.auto_start_enabled = TRUE],
                reply |-> Some(OllamaReply("Ollama auto-start enabled.", <<>>,
                               "Ollama will start automatically when needed")),
                probes |-> 0, spawned |-> 0, terminated |-> 0]
          [] branch = "disable" ->
               [st |-> [st EXCEPT !.auto_start_enabled = FALSE],
                reply |-> Some(OllamaReply("Ollama auto-start disabled.", <<>>,
                               "Ollama will not start automatically")),
                probes |-> 0, spawned |-> 0, terminated |-> 0]
          [] branch = "pull" ->
               [st |-> st,
                reply |-> Some(IF env.pull_ok
                               THEN OllamaReply("Model {} downloaded successfully.",
                                                <<st.model_name>>,
                                                "Model is now available")
                               ELSE OllamaReply("Failed to download model {}.",
                                                <<st.model_name>>,
                                                "Check internet connection and try again")),
                probes |-> 0, spawned |-> 1, terminated |-> 0]
          [] branch = "list" ->
               IF ~env.running
               THEN [st |-> probed, reply |-> Some(NotRunningReply),
                     probes |-> 1, spawned |-> 0, terminated |-> 0]
               ELSE [st |-> probed,
                     reply |-> Some(
                         IF env.listed = <<>>
                         THEN OllamaReply("No models found. You may need to download some first.",
                                          <<>>, "No models available")
                         ELSE OllamaReply(IF Len(env.listed) = 1
                                          THEN "Available model: {} Currently using: {}"
                                          ELSE "Available models: {} Currently using: {}",
                                          <<JoinNames(env.listed), st.model_name>>,
                                          "Models: {models}")),
                     probes |-> 2, spawned |-> 0, terminated |-> 0]
          [] branch = "switch" /\ SwitchRequest(text_command) # <<>> ->
               IF ~env.running
               THEN [st |-> probed, reply |-> Some(NotRunningReply),
                     probes |-> 1, spawned |-> 0, terminated |-> 0]
               ELSE LET switched == switch_model(probed, SwitchRequest(text_command),
                                                 env.listed)
                    IN  IF switched.ok
                        THEN [st |-> switched.st,
                              reply |-> Some(OllamaReply("Switched to model {}.",
                                                         <<switched.st.model_name>>,
                                                         "Now using model: {}")),
                              probes |-> 2, spawned |-> 0, terminated |-> 0]
                        ELSE [st |-> switched.st,
                              reply |-> Some(
                                  IF env.listed # <<>>
                                  THEN OllamaReply(
                                           "Model {} not found. Available models: {}",
                                           <<SwitchRequest(text_command),
                                             JoinNames(SubSeq(env.listed, 1,
                                                              Min({3, Len(env.listed)})))>>,
                                           "Available: {model_names}")
                                  ELSE OllamaReply(
                                           "No models available. You may need to download some first.",
                                           <<>>, "No models found")),
                              probes |-> 3, spawned |-> 0, terminated |-> 0]
          [] OTHER ->
               [st |-> st, reply |-> None, probes |-> 0, spawned |-> 0,
                terminated |-> 0]

-----------------------------------------------------------------------------
(* The calls made on the Ollama module.                                     *)
(*                                                                          *)
(* start_ollama_service runs in steps, one for each external call it makes  *)
(* (pc: "version", "popen", "probe", "check_model", "pull"); every other    *)
(* operation is one step.  ollama_call is the call in progress, or the last *)
(* one when pc is "idle": the operation, the manager's state when it began  *)
(* (pre), its argument, the loop variable of the readiness loop (attempt),  *)
(* the numbers of HTTP requests (probes), subprocesses (spawned), serving   *)
(* processes started (launched) and terminated, what the first probe of     *)
(* the call found (found_running), and what it returned: ok for the methods *)
(* that return a bool, reply for handle_ollama_command.                     *)

\* the model names switch_model is called with
ModelRequests == {<<"llama3">>, <<"Llama3">>, <<"phi">>, <<>>}

\* the commands handle_ollama_command is called with
OllamaCommands ==
    {<<"start", "ollama">>, <<"stop", "ollama">>, <<"ollama", "status">>,
     <<"turn", "on", "auto", "start">>, <<"disable", "ollama", "auto", "start">>,
     <<"pull", "model">>, <<"list", "models">>,
     <<"use", "model", "Llama3">>, <<"use", "model">>, <<"use", "mistral">>,
     <<"switch", "to", "mistral", "model">>,
     <<"use", "google", "voice">>, <<"switch", "to", "say">>,
     <<"switch", "to", "google">>, <<"google", "tts">>,
     <<"use", "local", "voice">>, <<"use", "say", "command">>,
     <<"what", "time", "is", "it">>, <<>>}

OllamaEnvs ==
    [running : BOOLEAN, avail : BOOLEAN, pull_ok : BOOLEAN, listed : ModelLists,
     stop : {"exited"}]

\* the one value that stands for the surroundings when a call asks nothing
QuietEnv == [running |-> FALSE, avail |-> FALSE, pull_ok |-> FALSE, listed |-> <<>>,
             stop |-> "exited"]

\* what the surroundings can do during a call of handle_ollama_command
OllamaEnvsFor(text_command) ==
    LET branch == OllamaBranch(text_command)
    IN  CASE branch = "status" -> {e \in OllamaEnvs : ~e.pull_ok /\ e.listed = <<>>}
          [] branch = "pull" ->
               {e \in OllamaEnvs : ~e.running /\ ~e.avail /\ e.listed = <<>>}
          [] branch \in {"list", "switch"} ->
               {e \in OllamaEnvs : ~e.avail /\ ~e.pull_ok
                                   /\ (~e.running => e.listed = <<>>)}
          [] branch = "stop" -> {[QuietEnv EXCEPT !.stop = o] : o \in StopOutcomes}
          [] OTHER -> {QuietEnv}

NewCall(op, arg) ==
    [op |-> op, pc |-> "idle", pre |-> Some(ollama), arg |-> arg,
     branch |-> "none", attempt |-> 0, readiness |-> 0, probes |-> 0,
     spawned |-> 0, launched |-> 0, orphaned |-> 0, terminated |-> 0,
     found_running |-> FALSE,
     listed |-> <<>>, model_found |-> None, pulled |-> None,
     stop_outcome |-> "none", ok |-> None, reply |-> None]

InitOllama ==
    /\ ollama = OllamaAtStart
    /\ ollama_call = [NewCall("__init__", <<>>) EXCEPT !.pre = None]

\* the call in progress returns `success` from start_ollama_service
ReturnFromStart(call, success) ==
    [call EXCEPT !.pc = "idle",
                 !.ok = Some(success),
                 !.reply = IF call.op = "handle_ollama_command"
                           THEN Some(StartReply(success)) ELSE None]

\* ollama_manager.switch_model(model_name)
SwitchModel(model_name, listed) ==
    /\ ollama_call.pc = "idle"
    /\ \E switched \in {switch_model(ollama, model_name, listed)} :
           /\ ollama' = switched.st
           /\ ollama_call' = [NewCall("switch_model", model_name) EXCEPT
                                  !.probes = 1, !.listed = listed,
                                  !.ok = Some(switched.ok)]
    /\ UNCHANGED beside_ollama

\* ollama_manager.start_ollama_service() is called
StartOllamaService ==
    /\ ollama_call.pc = "idle"
    /\ ollama_call' = [NewCall("start_ollama_service", <<>>) EXCEPT !.pc = "version"]
    /\ UNCHANGED ollama
    /\ UNCHANGED beside_ollama

\* ensure_ollama_available(): up to its return, or up to its call of
\* start_ollama_service
EnsureOllamaAvailable(running, avail, pull_ok) ==
    /\ ollama_call.pc = "idle"
    /\ ollama' = [ollama EXCEPT !.is_running = running]
    /\ ollama_call' =
           LET call == [NewCall("ensure_ollama_available", <<>>) EXCEPT
                            !.found_running = running]
           IN  IF running
               THEN IF avail
                    THEN [call EXCEPT !.probes = 2, !.model_found = Some(TRUE),
                                      !.ok = Some(TRUE)]
                    ELSE [call EXCEPT !.probes = 2, !.spawned = 1,
                                      !.model_found = Some(FALSE),
                                      !.pulled = Some(pull_ok),
                                      !.ok = Some(pull_ok)]
               ELSE IF ShouldAutoStart(ollama)
                    THEN [call EXCEPT !.probes = 1, !.pc = "version"]
                    ELSE [call EXCEPT !.probes = 1, !.ok = Some(FALSE)]
    /\ UNCHANGED beside_ollama

\* handle_ollama_command(text_command): up to its return, or up to its call
\* of start_ollama_service
HandleOllamaCommand(text_command) ==
    /\ ollama_call.pc = "idle"
    /\ IF OllamaBranch(text_command) = "start"
       THEN /\ ollama_call' = [NewCall("handle_ollama_command", text_command)
                                   EXCEPT !.pc = "version", !.branch = "start"]
            /\ UNCHANGED ollama
       ELSE \E env \in OllamaEnvsFor(text_command) :
            \E r \in {handle_ollama_command(ollama, text_command, env)} :
                /\ ollama' = r.st
                /\ ollama_call' =
                       [NewCall("handle_ollama_command", text_command) EXCEPT
                            !.branch = OllamaBranch(text_command),
                            !.probes = r.probes, !.spawned = r.spawned,
                            !.terminated = r.terminated,
                            !.stop_outcome =
                                IF r.terminated = 1 THEN env.stop ELSE "none",
                            !.found_running = env.running,
                            !.listed = env.listed,
                            !.reply = r.reply]
    /\ UNCHANGED beside_ollama

\* subprocess.run(['ollama', '--version'], ...) returns, or raises
StepVersion(found) ==
    /\ ollama_call.pc = "version"
    /\ ollama_call' =
           IF found THEN [ollama_call EXCEPT !.pc = "popen", !.spawned = @ + 1]
           ELSE ReturnFromStart([ollama_call EXCEPT !.spawned = @ + 1], FALSE)
    /\ UNCHANGED ollama
    /\ UNCHANGED beside_ollama

\* subprocess.Popen(['ollama', 'serve'], ...) returns, or raises into the
\* outer except clause
StepPopen(started) ==
    /\ ollama_call.pc = "popen"
    /\ IF started
       THEN /\ ollama' = [ollama EXCEPT !.ollama_process = TRUE]
            /\ ollama_call' = [ollama_call EXCEPT !.pc = "probe", !.attempt = 0,
                                                  !.spawned = @ + 1,
                                                  !.launched = @ + 1,
                                                  !.orphaned =
                                                      IF ollama.ollama_process
                                                      THEN @ + 1 ELSE @]
       ELSE /\ UNCHANGED ollama
            /\ ollama_call' =
                   ReturnFromStart([ollama_call EXCEPT !.spawned = @ + 1], FALSE)
    /\ UNCHANGED beside_ollama

\* one turn of the readiness loop: time.sleep(1), check_ollama_running()
StepProbe(running) ==
    /\ ollama_call.pc = "probe"
    /\ ollama_call.attempt < startup_timeout
    /\ ollama' = [ollama EXCEPT !.is_running = running]
    /\ ollama_call' =
           LET probed == [ollama_call EXCEPT !.probes = @ + 1,
                                             !.readiness = @ + 1]
           IN  IF running THEN [probed EXCEPT !.pc = "check_model"]
               ELSE IF NextAttempt(ollama_call.attempt) < startup_timeout
               THEN [probed EXCEPT !.attempt = NextAttempt(ollama_call.attempt)]
               ELSE ReturnFromStart(
                        [probed EXCEPT !.attempt = NextAttempt(ollama_call.attempt)],
                        FALSE)
    /\ UNCHANGED beside_ollama

\* check_model_available() after a successful probe
StepCheckModel(avail) ==
    /\ ollama_call.pc = "check_model"
    /\ ollama_call' =
           IF avail
           THEN ReturnFromStart([ollama_call EXCEPT !.probes = @ + 1,
                                                    !.model_found = Some(TRUE)], TRUE)
           ELSE [ollama_call EXCEPT !.probes = @ + 1, !.model_found = Some(FALSE),
                                    !.pc = "pull"]
    /\ UNCHANGED ollama
    /\ UNCHANGED beside_ollama

\* pull_model() returns; start_ollama_service does not look at its result
StepPull(pull_ok) ==
    /\ ollama_call.pc = "pull"
    /\ ollama_call' = ReturnFromStart([ollama_call EXCEPT !.spawned = @ + 1,
                                                          !.pulled = Some(pull_ok)],
                                       TRUE)
    /\ UNCHANGED ollama
    /\ UNCHANGED beside_ollama

\* the steps of a call of start_ollama_service in progress
StartStep ==
    \/ \E found \in BOOLEAN : StepVersion(found)
    \/ \E started \in BOOLEAN : StepPopen(started)
    \/ \E running \in BOOLEAN : StepProbe(running)
    \/ \E avail \in BOOLEAN : StepCheckModel(avail)
    \/ \E pull_ok \in BOOLEAN : StepPull(pull_ok)

NextOllama ==
    \/ \E model_name \in ModelRequests, listed \in ModelLists :
           SwitchModel(model_name, listed)
    \/ StartOllamaService
    \/ \E running, avail, pull_ok \in BOOLEAN :
           EnsureOllamaAvailable(running, avail, pull_ok)
    \/ \E text_command \in OllamaCommands : HandleOllamaCommand(text_command)
    \/ StartStep

-----------------------------------------------------------------------------
(* handlers/calculation_handler.py.                                         *)
(*                                                                          *)
(* A command is a sequence of tokens: words, numerals, and the signs +, -,  *)
(* *, /, % and $.  A float is held exactly, as a whole number of hundredths *)
(* or of tenths, and is turned into text as the format of the f-string      *)
(* prints it.                                                               *)

\* the numbers the commands are made of.  No quotient of two of them lies
\* half-way between two hundredths, so that ":.2f" rounds it to the nearest.
Operands == {0, 5, 15, 23, 47, 50}

\* \d+ : the token is a numeral; float(group)
IsNumeral(token) == \E n \in Operands : ToString(n) = token
NumeralValue(token) == CHOOSE n \in Operands : ToString(n) = token

Abs(n) == IF n < 0 THEN -n ELSE n

\* n / d rounded to the nearest whole number
RoundDiv(n, d) ==
    LET q == (2 * Abs(n) + d) \div (2 * d)
    IN  IF n < 0 THEN -q ELSE q

\* f"{x:.2f}" of x = h / 100
Format2f(h) ==
    <<IF h < 0 /\ Abs(h) < 100 THEN "-0"
      ELSE ToString(IF h < 0 THEN -(Abs(h) \div 100) ELSE h \div 100),
      ".">> \o Pad2(Abs(h) % 100)

\* f"{x:.1f}" of x = t / 10
Format1f(t) ==
    <<IF t < 0 /\ Abs(t) < 10 THEN "-0"
      ELSE ToString(IF t < 0 THEN -(Abs(t) \div 10) ELSE t \div 10),
      ".", Digits[(Abs(t) % 10) + 1]>>

\* str(float(n)) of a whole number n
FloatStr(n) == <<ToString(n), ".", "0">>

\* the dict a calculation returns
CalcReply(template, args) ==
    [spoken_response |-> Text(template, args),
     opened_url |-> None,
     additional_context |-> None]

\* the places where "lead number mid number" begins in c
MatchesAt(c, lead, mid) ==
    {i \in 1..Len(c) :
        /\ i + Len(lead) + Len(mid) + 1 <= Len(c)
        /\ SubSeq(c, i, i + Len(lead) - 1) = lead
        /\ IsNumeral(c[i + Len(lead)])
        /\ SubSeq(c, i + Len(lead) + 1, i + Len(lead) + Len(mid)) = mid
        /\ IsNumeral(c[i + Len(lead) + Len(mid) + 1])}

\* re.search of such a pattern: the two groups of the leftmost match
SearchPair(c, lead, mid) ==
    IF MatchesAt(c, lead, mid) = {} THEN None
    ELSE LET i == Min(MatchesAt(c, lead, mid))
         IN  Some(<<c[i + Len(lead)], c[i + Len(lead) + Len(mid) + 1]>>)

\* re.search of a tip pattern: a number, the mark, "tip", and the first
\* number after it
SearchTip(c, mark) ==
    LET starts == {i \in 1..Len(c) :
                      /\ i + 2 <= Len(c)
                      /\ IsNumeral(c[i])
                      /\ c[i + 1] = mark
                      /\ c[i + 2] = "tip"
                      /\ \E j \in (i + 3)..Len(c) : IsNumeral(c[j])}
    IN  IF starts = {} THEN None
        ELSE LET i == Min(starts)
                 j == Min({k \in (i + 3)..Len(c) : IsNumeral(c[k])})
             IN  Some(<<c[i], c[j]>>)

\* the first of the matches that is one; None if none is
FirstMatch(found) ==
    IF \E i \in DOMAIN found : ~IsNone(found[i])
    THEN found[Min({i \in DOMAIN found : ~IsNone(found[i])})]
    ELSE None

_handle_tip_calculation(command_lower) ==
    LET match == FirstMatch(<<SearchTip(command_lower, "%"),
                              SearchTip(command_lower, "percent")>>)
    IN  IF IsNone(match) THEN None
        ELSE LET percentage == NumeralValue(Get(match)[1])
                 amount == NumeralValue(Get(match)[2])
                 tip_amount == amount * percentage
                 total == amount * 100 + tip_amount
             IN  Some(CalcReply("A {}% tip on ${} is ${}. Total would be ${}.",
                                <<FloatStr(percentage), Format2f(amount * 100),
                                  Format2f(tip_amount), Format2f(total)>>))

_handle_percentage_calculation(command_lower) ==
    LET match == FirstMatch(<<SearchPair(command_lower, <<>>, <<"%", "of">>),
                              SearchPair(command_lower, <<>>, <<"percent", "of">>)>>)
    IN  IF IsNone(match) THEN None
        ELSE LET percentage == NumeralValue(Get(match)[1])
                 amount == NumeralValue(Get(match)[2])
             IN  Some(CalcReply("{}% of {} is {}.",
                                <<FloatStr(percentage), FloatStr(amount),
                                  Format2f(amount * percentage)>>))

\* the patterns of _handle_basic_arithmetic, in the order of the list
ArithmeticPatterns ==
    <<[lead |-> <<>>, mid |-> <<"+">>, op |-> "+", words |-> <<"plus">>],
      [lead |-> <<>>, mid |-> <<"-">>, op |-> "-", words |-> <<"minus">>],
      [lead |-> <<>>, mid |-> <<"*">>, op |-> "*", words |-> <<"times">>],
      [lead |-> <<>>, mid |-> <<"/">>, op |-> "/", words |-> <<"divided", "by">>],
      [lead |-> <<"what's">>, mid |-> <<"plus">>, op |-> "+", words |-> <<"plus">>],
      [lead |-> <<"what's">>, mid |-> <<"minus">>, op |-> "-", words |-> <<"minus">>],
      [lead |-> <<"what's">>, mid |-> <<"times">>, op |-> "*", words |-> <<"times">>],
      [lead |-> <<"what's">>, mid |-> <<"divided", "by">>, op |-> "/",
       words |-> <<"divided", "by">>]>>

\* calc_func: the result in hundredths; b is not zero for "/"
Calculate(op, a, b) ==
    CASE op = "+" -> (a + b) * 100
      [] op = "-" -> (a - b) * 100
      [] op = "*" -> (a * b) * 100
      [] op = "/" -> RoundDiv(a * 100, b)

_handle_basic_arithmetic(command_lower) ==
    LET hits == {k \in DOMAIN ArithmeticPatterns :
                    ~IsNone(SearchPair(command_lower, ArithmeticPatterns[k].lead,
                                       ArithmeticPatterns[k].mid))}
    IN  IF hits = {} THEN None
        ELSE LET pattern == ArithmeticPatterns[Min(hits)]
                 match == Get(SearchPair(command_lower, pattern.lead, pattern.mid))
                 a == NumeralValue(match[1])
                 b == NumeralValue(match[2])
             IN  IF pattern.op = "/" /\ b = 0
                 THEN Some(CalcReply("You can't divide by zero.", <<>>))
                 ELSE Some(CalcReply("{} equals {}.",
                                     <<<<match[1]>> \o pattern.words \o <<match[2]>>,
                                       Format2f(Calculate(pattern.op, a, b))>>))

\* the places where "number [degree(s)] from to to" begins in c
SearchDegrees(c, from, to) ==
    LET At(i, k) == /\ i + k + 2 <= Len(c)
                    /\ IsNumeral(c[i])
                    /\ k = 1 => c[i + 1] \in {"degree", "degrees"}
                    /\ c[i + k + 1] \in from
                    /\ c[i + k + 2] = "to"
                    /\ i + k + 3 <= Len(c)
                    /\ c[i + k + 3] \in to
        starts == {i \in 1..Len(c) : At(i, 0) \/ At(i, 1)}
    IN  IF starts = {} THEN None ELSE Some(c[Min(starts)])

_handle_unit_conversion(command_lower) ==
    LET celsius_to_f == SearchDegrees(command_lower, {"celsius", "c"},
                                      {"fahrenheit", "f"})
        fahrenheit_to_c == SearchDegrees(command_lower, {"fahrenheit", "f"},
                                         {"celsius", "c"})
    IN  IF ~IsNone(celsius_to_f)
        THEN LET celsius == NumeralValue(Get(celsius_to_f))
             IN  Some(CalcReply("{} degrees Celsius is {} degrees Fahrenheit.",
                                <<FloatStr(celsius), Format1f(celsius * 18 + 320)>>))
        ELSE IF ~IsNone(fahrenheit_to_c)
        THEN LET fahrenheit == NumeralValue(Get(fahrenheit_to_c))
             IN  Some(CalcReply("{} degrees Fahrenheit is {} degrees Celsius.",
                                <<FloatStr(fahrenheit),
                                  Format1f(RoundDiv((fahrenheit - 32) * 50, 9))>>))
        ELSE None

\* handle_calculation: the first of the four that answers
handle_calculation(text_command) ==
    LET command_lower == Strip(Lower(text_command))
    IN  FirstMatch(<<_handle_tip_calculation(command_lower),
                     _handle_percentage_calculation(command_lower),
                     _handle_basic_arithmetic(command_lower),
                     _handle_unit_conversion(command_lower)>>)

\* the commands given to the calculator: "a + b" and the other forms of
\* ArithmeticPatterns, "p% tip on $x", and some of the other kinds
ArithmeticCommand(k, a, b) ==
    ArithmeticPatterns[k].lead \o <<ToString(a)>> \o ArithmeticPatterns[k].mid
        \o <<ToString(b)>>

TipCommand(p, x) == <<ToString(p), "%", "tip", "on", "$", ToString(x)>>

CalcCommands ==
    {ArithmeticCommand(k, a, b) : k \in DOMAIN ArithmeticPatterns,
                                  a \in Operands, b \in Operands}
    \cup {TipCommand(p, x) : p \in Operands, x \in Operands}
    \cup {<<"what's", "15", "percent", "tip", "on", "50">>,
          <<"what's", "15", "%", "of", "50">>,
          <<"15", "degrees", "celsius", "to", "fahrenheit">>,
          <<"50", "f", "to", "c">>,
          <<"calculate", "abc", "plus", "def">>,
          <<"what", "time", "is", "it">>}

\* handle_calculation is called, while no call of the router is under way
HandleCalculation(text_command) ==
    /\ IsNone(request)
    /\ IsNone(response)
    /\ calc_call' = [text_command |-> text_command,
                     ret |-> handle_calculation(text_command),
                     raised |-> FALSE]
    /\ UNCHANGED beside_calc

\* the command the calculator was given is sent through the router
SubmitCalculation(via) ==
    /\ calc_call.text_command # <<>>
    /\ IsNone(request)
    /\ IsNone(response)
    /\ request' = Some([via |-> via,
                        encoding |-> IF via = "call" THEN "none" ELSE "json",
                        present |-> TRUE,
                        text_command |-> Some(calc_call.text_command)])
    /\ UNCHANGED <<response, memo, calc_call>>
    /\ UNCHANGED <<tts_vars, ollama_vars, speaker_vars, handler_vars, stream_vars>>

NextCalc ==
    \/ \E text_command \in CalcCommands : HandleCalculation(text_command)
    \/ \E via \in {"call", "/command"} : SubmitCalculation(via)
    \/ ProcessCommand
    \/ CommandEndpoint
    \/ TakeResponse

-----------------------------------------------------------------------------
(* TTSManager.speak called from several request threads.                    *)
(*                                                                          *)
(* run_flask_server serves with threaded=True, so each request runs on a    *)
(* thread of its own, and speak takes no lock: a thread can be preempted    *)
(* between any two of its reads and writes of the manager's fields.         *)
(* "self.fallback_count += 1" is a read of the field (pc "load") and a      *)
(* write of the value read plus one (pc "store").  A thread's record: its   *)
(* position in speak, the value of fallback_count it read, whether this     *)
(* call's Google attempt failed, and over its calls so far the number it    *)
(* began (begun), of Google attempts that failed (failures) and of those    *)
(* that _say_fallback then spoke (rescued).  The text is never empty.       *)

\* the number of request threads
MaxSpeakers == 2

\* speak is not called again once it has been called this many times
MaxSpeakCalls == 3

Speakers == 1..MaxSpeakers

RECURSIVE SumUpTo(_, _)
SumUpTo(f(_), n) == IF n = 0 THEN 0 ELSE f(n) + SumUpTo(f, n - 1)

CallsBegun == SumUpTo(LAMBDA t : speakers[t].begun, MaxSpeakers)
FailuresOfGoogle == SumUpTo(LAMBDA t : speakers[t].failures, MaxSpeakers)
FailuresRescued == SumUpTo(LAMBDA t : speakers[t].rescued, MaxSpeakers)

InitSpeakers ==
    speakers = [t \in Speakers |->
                   [pc |-> "idle", loaded |-> 0, failed |-> FALSE,
                    begun |-> 0, failures |-> 0, rescued |-> 0]]

\* "if not force_fallback and self.use_google_tts and self.google_available"
EnterSpeak(t, force_fallback) ==
    /\ speakers[t].pc = "idle"
    /\ CallsBegun < MaxSpeakCalls
    /\ speakers' = [speakers EXCEPT
                      ![t].pc = IF TriesGoogle(TTSState, force_fallback)
                                THEN "google" ELSE "say",
                      ![t].failed = FALSE,
                      ![t].begun = @ + 1]
    /\ UNCHANGED fallback_count
    /\ UNCHANGED beside_speakers

\* "if self._google_tts(text): return ... else: logger.info(...)"
GoogleReturns(t, g_ok) ==
    /\ speakers[t].pc = "google"
    /\ speakers' = [speakers EXCEPT
                      ![t].pc = IF g_ok THEN "idle" ELSE "load",
                      ![t].failed = ~g_ok,
                      ![t].failures = IF g_ok THEN @ ELSE @ + 1]
    /\ UNCHANGED fallback_count
    /\ UNCHANGED beside_speakers

\* "self.fallback_count += 1": the read
LoadCount(t) ==
    /\ speakers[t].pc = "load"
    /\ speakers' = [speakers EXCEPT ![t].pc = "store", ![t].loaded = fallback_count]
    /\ UNCHANGED fallback_count
    /\ UNCHANGED beside_speakers

\* "self.fallback_count += 1": the write
StoreCount(t) ==
    /\ speakers[t].pc = "store"
    /\ fallback_count' = speakers[t].loaded + 1
    /\ speakers' = [speakers EXCEPT ![t].pc = "say"]
    /\ UNCHANGED beside_speakers

\* "if self._say_fallback(text): return ... return ..."
SayReturns(t, say_ok) ==
    /\ speakers[t].pc = "say"
    /\ speakers' = [speakers EXCEPT
                      ![t].pc = "idle",
                      ![t].rescued = IF speakers[t].failed /\ say_ok
                                     THEN @ + 1 ELSE @]
    /\ UNCHANGED fallback_count
    /\ UNCHANGED beside_speakers

NextSpeakers ==
    \/ \E t \in Speakers, force_fallback \in BOOLEAN : EnterSpeak(t, force_fallback)
    \/ \E t \in Speakers, g_ok \in BOOLEAN : GoogleReturns(t, g_ok)
    \/ \E t \in Speakers : LoadCount(t)
    \/ \E t \in Speakers : StoreCount(t)
    \/ \E t \in Speakers, say_ok \in BOOLEAN : SayReturns(t, say_ok)

-----------------------------------------------------------------------------
(* handlers/audio_handler.py.                                               *)
(*                                                                          *)
(* The keywords of this handler are searched as substrings and some of the  *)
(* commands hold a word of which a keyword is a part, so such a word is     *)
(* spelled as the keyword and a suffix token: "speakers" is                 *)
(* <<"speaker", "s">>, "devices" is <<"device", "s">>, "soundbar" is        *)
(* <<"sound", "bar">>.  A suffix token follows its word without a space.    *)
(* env holds what the system does: the output devices system_profiler       *)
(* reports, whether _find_matching_device finds the speaker among them, and *)
(* how SwitchAudioSource and osascript end.                                 *)

Suffixes == {"s", "bar"}

AudioKeywords ==
    {<<"audio">>, <<"speaker">>, <<"speaker", "s">>, <<"sound">>, <<"output">>,
     <<"audio", "device">>, <<"sound", "output">>, <<"switch", "audio">>}

_is_audio_request(command_lower) == ContainsAny(command_lower, AudioKeywords)

ListPatterns ==
    {<<"list">>, <<"show">>, <<"what">>, <<"available">>, <<"options">>,
     <<"speaker", "s", "do", "you", "have">>, <<"audio", "device", "s">>,
     <<"sound", "device", "s">>}

_is_list_request(command_lower) == ContainsAny(command_lower, ListPatterns)

\* r"switch to (.+)", r"use (.+)", r"set audio to (.+)", r"change to (.+)"
SpeakerPatterns ==
    <<<<"switch", "to">>, <<"use">>, <<"set", "audio", "to">>, <<"change", "to">>>>

\* re.search(pattern, s): the places where the pattern's words, a space and
\* at least one more character are found
SpeakerMatches(s, p) ==
    {i \in 1..(Len(s) - Len(p)) :
        /\ SubSeq(s, i, i + Len(p) - 1) = p
        /\ s[i + Len(p)] \notin Suffixes}

\* match.group(1).strip() of the first pattern that matches, or None
_extract_speaker_name(command_lower) ==
    LET matching == {k \in DOMAIN SpeakerPatterns :
                        SpeakerMatches(command_lower, SpeakerPatterns[k]) # {}}
    IN  IF matching = {} THEN None
        ELSE LET p == SpeakerPatterns[Min(matching)]
                 i == Min(SpeakerMatches(command_lower, p))
             IN  Some(Strip(SubSeq(command_lower, i + Len(p), Len(command_lower))))

Reply(spoken_response, additional_context) ==
    [spoken_response |-> spoken_response, opened_url |-> None,
     additional_context |-> additional_context]

_list_audio_devices(devices) ==
    IF devices = <<>>
    THEN Reply(Text("I couldn't find any audio devices.", <<>>), None)
    ELSE Reply(Text("Available speakers: {}. Say 'switch to' followed by the speaker name.",
                    devices),
               Some(Text("Found {} audio devices", <<Len(devices)>>)))

_switch_to_speaker(speaker_name, env) ==
    IF env.devices = <<>>
    THEN Reply(Text("I couldn't find any audio devices to switch to.", <<>>), None)
    ELSE IF ~env.found
    THEN Reply(Text("I couldn't find a speaker named '{}'. Available speakers are: {}",
                    <<speaker_name, env.devices>>), None)
    ELSE IF env.switch = "exit 0"
    THEN Reply(Text("Switched audio to {}.", <<Head(env.devices)>>),
               Some(Text("Audio output: {}", <<Head(env.devices)>>)))
    ELSE IF env.switch = "raised" \/ ~env.osascript_ok
    THEN Reply(Text("I couldn't switch to {}. Please check Sound preferences manually.",
                    <<speaker_name>>), None)
    ELSE Reply(Text("Opened Sound preferences. Please select {} manually.",
                    <<Head(env.devices)>>),
               Some(Text("Manual selection needed for: {}", <<Head(env.devices)>>)))

handle_audio_command(text_command, env) ==
    LET command_lower == Strip(Lower(text_command))
        speaker_name == _extract_speaker_name(command_lower)
    IN  IF ~_is_audio_request(command_lower) THEN None
        ELSE IF _is_list_request(command_lower)
        THEN Some(_list_audio_devices(env.devices))
        ELSE IF ~IsNone(speaker_name) /\ Get(speaker_name) # <<>>
        THEN Some(_switch_to_speaker(Get(speaker_name), env))
        ELSE Some(_list_audio_devices(env.devices))

AudioCommands ==
    {<<"list", "audio", "device", "s">>,
     <<"show", "speaker", "s">>,
     <<"what", "sound", "device", "s">>,
     <<"what", "speaker", "s", "are", "available">>,
     <<"switch", "to", "sound", "bar">>,
     <<"switch", "to", "yamaha">>,
     <<"Switch", "to", " ", "yamaha">>,
     <<"use", "bluetooth">>,
     <<"use", "the", "speaker", "s">>,
     <<"switch", "audio", "to", "yamaha">>,
     <<"set", "audio", "to", "yamaha">>,
     <<"change", "to", "yamaha", "speaker", "s">>,
     <<"audio">>,
     <<"what", "time", "is", "it">>,
     <<"classical", "radio">>}

DeviceLists == {<<>>, <<"Mac mini Speakers">>, <<"Mac mini Speakers", "DGX-670">>}

AudioEnvs ==
    [devices : DeviceLists, found : BOOLEAN,
     switch : {"exit 0", "exit 1", "not installed", "raised"},
     osascript_ok : BOOLEAN]

\* what the call reads of env
AudioEnvsFor(text_command) ==
    LET command_lower == Strip(Lower(text_command))
        quiet == [devices |-> <<>>, found |-> FALSE, switch |-> "exit 0",
                  osascript_ok |-> TRUE]
    IN  IF ~_is_audio_request(command_lower) THEN {quiet}
        ELSE IF _is_list_request(command_lower)
                    \/ IsNone(_extract_speaker_name(command_lower))
        THEN {[quiet EXCEPT !.devices = d] : d \in DeviceLists}
        ELSE {env \in AudioEnvs :
                /\ env.devices = <<>> => env = quiet
                /\ ~env.found => (env.switch = "exit 0" /\ env.osascript_ok)
                /\ env.switch \in {"exit 0", "raised"} => env.osascript_ok}

HandleAudioCommand(text_command, env) ==
    /\ handler_call' = [handler |-> "handle_audio_command",
                        text_command |-> text_command,
                        ret |-> handle_audio_command(text_command, env),
                        log |-> <<>>]
    /\ UNCHANGED beside_handlers

-----------------------------------------------------------------------------
(* handlers/radio_handler.py.  log holds the calls of webbrowser.open, each *)
(* with its URL and whether it raised.                                      *)

RADIO_STATIONS ==
    [classical |-> [url |-> "https://radioparadise.com/player",
                    name |-> "Radio Paradise Main Mix"],
     jazz |-> [url |-> "https://somafm.com/player/#/now-playing/groovesalad",
               name |-> "SomaFM Groove Salad"],
     rock |-> [url |-> "https://radioparadise.com/player",
               name |-> "Radio Paradise Rock Mix"],
     progressive |-> [url |-> "https://somafm.com/player/#/now-playing/bagel",
                      name |-> "SomaFM BAGeL Radio"],
     npr |-> [url |-> "https://www.npr.org/player/live", name |-> "NPR Live Radio"],
     news |-> [url |-> "https://www.npr.org/player/live", name |-> "NPR Live Radio"]]

RadioKeywords ==
    {<<"radio">>, <<"classical", "music">>, <<"jazz", "music">>, <<"rock", "music">>,
     <<"news">>, <<"npr">>, <<"classical", "radio">>, <<"jazz", "radio">>,
     <<"rock", "radio">>, <<"npr", "radio">>, <<"progressive", "rock">>,
     <<"classic", "rock">>, <<"public", "radio">>,
     <<"national", "public", "radio">>}

_is_radio_request(command_lower) == ContainsAny(command_lower, RadioKeywords)

\* the words of each station, in the order _determine_station tries them
StationWords ==
    <<[key |-> "npr",
       words |-> {<<"npr">>, <<"news">>, <<"public", "radio">>,
                  <<"national", "public", "radio">>}],
      [key |-> "classical",
       words |-> {<<"classical">>, <<"orchestra">>, <<"symphony">>, <<"baroque">>,
                  <<"mozart">>}],
      [key |-> "jazz",
       words |-> {<<"jazz">>, <<"smooth">>, <<"groove">>, <<"bebop">>, <<"swing">>}],
      [key |-> "progressive",
       words |-> {<<"progressive", "rock">>, <<"prog", "rock">>, <<"progressive">>,
                  <<"prog">>}],
      [key |-> "rock",
       words |-> {<<"rock">>, <<"classic", "rock">>, <<"guitar">>, <<"70s">>,
                  <<"80s">>}]>>

_determine_station(command_lower) ==
    LET found == {k \in DOMAIN StationWords :
                     ContainsAny(command_lower, StationWords[k].words)}
    IN  IF found = {} THEN None ELSE Some(StationWords[Min(found)].key)

_list_available_stations ==
    LET stations_text == <<"Radio Paradise Main Mix", "SomaFM Groove Salad",
                           "Radio Paradise Rock Mix", "SomaFM BAGeL Radio",
                           "NPR Live Radio", "NPR Live Radio">>
    IN  [ret |-> Reply(Text("I can play these radio stations: {}. Just say 'play classical radio', 'play jazz radio', or 'play rock radio'.",
                            stations_text),
                       Some(Text("Available stations: {}", stations_text))),
         log |-> <<>>]

\* the one call of webbrowser.open, and whether it raised
Opened(url, open_raises) ==
    <<[call |-> "webbrowser.open", url |-> url, raised |-> open_raises]>>

_play_station_unguarded(station_key, open_raises) ==
    LET station == RADIO_STATIONS[station_key]
    IN  [ret |-> [spoken_response |->
                      Text("Playing {}. Enjoy the music!", <<station.name>>),
                  opened_url |-> Some(station.url),
                  additional_context |-> Some(Text("Radio: {}", <<station.name>>))],
         log |-> Opened(station.url, open_raises)]

_play_station(station_key, open_raises) ==
    IF station_key \notin DOMAIN RADIO_STATIONS THEN _list_available_stations
    ELSE LET station == RADIO_STATIONS[station_key]
         IN  IF open_raises
             THEN [ret |-> Reply(Text("I couldn't start {} right now.", <<station.name>>),
                                 None),
                   log |-> Opened(station.url, TRUE)]
             ELSE [ret |-> [spoken_response |->
                                Text("Playing {}. Enjoy the music!", <<station.name>>),
                            opened_url |-> Some(station.url),
                            additional_context |->
                                Some(Text("Radio: {}", <<station.name>>))],
                   log |-> Opened(station.url, FALSE)]

handle_radio_command(text_command, open_raises) ==
    LET command_lower == Strip(Lower(text_command))
        station_key == _determine_station(command_lower)
        played == IF IsNone(station_key) THEN _list_available_stations
                  ELSE _play_station(Get(station_key), open_raises)
    IN  IF ~_is_radio_request(command_lower)
        THEN [ret |-> None, log |-> <<>>]
        ELSE [ret |-> Some(played.ret), log |-> played.log]

RadioCommands ==
    {<<"classical", "radio">>, <<"jazz", "music">>, <<"rock", "radio">>,
     <<"npr">>, <<"NPR">>, <<"news">>, <<"progressive", "rock">>,
     <<"classic", "rock">>, <<"play", "jazz", "radio">>,
     <<" ", "classical", "music", " ">>,
     <<"mozart", "on", "the", "radio">>, <<"guitar", "radio">>,
     <<"classical", "news", "radio">>, <<"jazz", "rock", "radio">>,
     <<"what", "radio", "stations", "do", "you", "have">>, <<"radio">>,
     <<"turn", "on", "the", "radio">>,
     <<"play", "some", "jazz">>, <<"what", "time", "is", "it">>}

HandleRadioCommand(text_command, open_raises) ==
    LET r == handle_radio_command(text_command, open_raises)
    IN  /\ handler_call' = [handler |-> "handle_radio_command",
                            text_command |-> text_command,
                            ret |-> r.ret, log |-> r.log]
        /\ UNCHANGED beside_handlers

-----------------------------------------------------------------------------
(* handlers/visualizer_handler.py.  log holds which of _start_visualizer    *)
(* and _stop_visualizer ran.  env holds how the commands end: iina          *)
(* ("exit 0", "exit 1" for CalledProcessError, "raised" for any other       *)
(* exception), and whether "open -a IINA" and osascript run.                *)

OnPatterns ==
    {<<"visualizer">>, <<"visualizer", "on">>, <<"start", "visualizer">>,
     <<"show", "visualizer">>, <<"enable", "visualizer">>}

OffPatterns ==
    {<<"visualizer", "off">>, <<"stop", "visualizer">>, <<"hide", "visualizer">>,
     <<"disable", "visualizer">>, <<"close", "visualizer">>}

_is_visualizer_on_request(command_lower) == ContainsAny(command_lower, OnPatterns)

_is_visualizer_off_request(command_lower) == ContainsAny(command_lower, OffPatterns)

_start_visualizer(env) ==
    IF env.iina = "exit 1"
    THEN IF env.open_ok
         THEN Reply(Text("Opened IINA. Go to View menu and select Video Visualizer, then open system audio.",
                         <<>>),
                    Some(Text("IINA opened manually", <<>>)))
         ELSE Reply(Text("I couldn't start the visualizer. Make sure IINA is installed.",
                         <<>>), None)
    ELSE IF env.iina = "raised" \/ ~env.osascript_ok
    THEN Reply(Text("I had trouble starting the visualizer.", <<>>),
               Some(Text("Error: {}", <<"e">>)))
    ELSE Reply(Text("Visualizer is now running! It should respond to any audio playing on your system.",
                    <<>>),
               Some(Text("IINA visualizer started", <<>>)))

_stop_visualizer(env) ==
    IF ~env.osascript_ok
    THEN Reply(Text("I had trouble stopping the visualizer.", <<>>),
               Some(Text("Error: {}", <<"e">>)))
    ELSE Reply(Text("Visualizer stopped.", <<>>), Some(Text("IINA closed", <<>>)))

handle_visualizer_command(text_command, env) ==
    LET command_lower == Strip(Lower(text_command))
    IN  IF _is_visualizer_on_request(command_lower)
        THEN [ret |-> Some(_start_visualizer(env)), log |-> <<"_start_visualizer">>]
        ELSE IF _is_visualizer_off_request(command_lower)
        THEN [ret |-> Some(_stop_visualizer(env)), log |-> <<"_stop_visualizer">>]
        ELSE [ret |-> None, log |-> <<>>]

VisualizerCommands ==
    {<<"visualizer">>, <<"visualizer", "on">>, <<"start", "visualizer">>,
     <<"show", "visualizer">>, <<"enable", "visualizer">>,
     <<"visualizer", "off">>, <<"stop", "visualizer">>, <<"hide", "visualizer">>,
     <<"disable", "visualizer">>, <<"close", "visualizer">>,
     <<"Visualizer", "off">>, <<"please", "stop", "visualizer", "now">>,
     <<"turn", "the", "visualizer", "on">>,
     <<"show", "me", "a", "chart">>, <<"what", "time", "is", "it">>}

VisualizerEnvs ==
    [iina : {"exit 0", "exit 1", "raised"}, open_ok : BOOLEAN, osascript_ok : BOOLEAN]

\* what the call reads of env
VisualizerEnvsFor(text_command) ==
    LET command_lower == Strip(Lower(text_command))
        quiet == [iina |-> "exit 0", open_ok |-> TRUE, osascript_ok |-> TRUE]
    IN  IF _is_visualizer_on_request(command_lower)
        THEN {env \in VisualizerEnvs :
                /\ env.iina = "exit 1" => env.osascript_ok
                /\ env.iina = "exit 0" => env.open_ok
                /\ env.iina = "raised" => env = [quiet EXCEPT !.iina = "raised"]}
        ELSE IF _is_visualizer_off_request(command_lower)
        THEN {[quiet EXCEPT !.osascript_ok = b] : b \in BOOLEAN}
        ELSE {quiet}

HandleVisualizerCommand(text_command, env) ==
    LET r == handle_visualizer_command(text_command, env)
    IN  /\ handler_call' = [handler |-> "handle_visualizer_command",
                            text_command |-> text_command,
                            ret |-> r.ret, log |-> r.log]
        /\ UNCHANGED beside_handlers

NextHandlers ==
    \/ \E text_command \in AudioCommands :
          \E env \in AudioEnvsFor(text_command) : HandleAudioCommand(text_command, env)
    \/ \E text_command \in RadioCommands, open_raises \in BOOLEAN :
          HandleRadioCommand(text_command, open_raises)
    \/ \E text_command \in VisualizerCommands :
          \E env \in VisualizerEnvsFor(text_command) :
              HandleVisualizerCommand(text_command, env)

-----------------------------------------------------------------------------
(* The LLM streaming client, the fallback of the router.                    *)
(*                                                                          *)
(* The tests patch julie_julie_app.handle_ollama_query, the router's        *)
(* fallback; the function itself is not in the source, and is modelled here *)
(* from its specification.  What the router does with the dict it returns   *)
(* is the end of process_command_from_user.                                 *)
(*                                                                          *)
(* In this section text is a sequence of pieces: a word, one space " ", or  *)
(* one of the marks ".", "!" and "?"; "is blue." is                         *)
(* <<"is", " ", "blue", ".">>.  A token of the stream is such a text.       *)
(* stream is the call in progress, or the last one: its position (pc), the  *)
(* tokens not yet received, the full response and the sentence buffer, the  *)
(* texts given to the speech adapter in order (spoken), how many of them    *)
(* the sentence rule gave (flushed), the dict returned (ret) and the log of *)
(* the router's own speaking and opening (log).                             *)

\* the longest stream, in tokens
MaxStreamTokens == 2

Marks == {".", "!", "?"}

HasMark(buffer) == \E i \in DOMAIN buffer : buffer[i] \in Marks

\* the buffer cut after its last mark
SplitAtLastMark(buffer) ==
    LET idx == Max({i \in DOMAIN buffer : buffer[i] \in Marks})
    IN  [sentence |-> Strip(SubSeq(buffer, 1, idx)),
         rest |-> SubSeq(buffer, idx + 1, Len(buffer))]

\* the sentence boundary rule: the buffer cut after its earliest mark
SplitSentence(buffer) ==
    LET idx == Min({i \in DOMAIN buffer : buffer[i] \in Marks})
    IN  [sentence |-> Strip(SubSeq(buffer, 1, idx)),
         rest |-> SubSeq(buffer, idx + 1, Len(buffer))]

\* a response as the spoken_response of a dict
Spoken(text) == IF text = <<>> THEN Text("", <<>>) ELSE Text("{}", <<text>>)

StreamedResult(full_response) ==
    [spoken_response |-> Spoken(Strip(full_response)),
     opened_url |-> None,
     additional_context |-> Some(Text("streamed", <<>>))]

TroubleThinkingResult ==
    [spoken_response |-> Text("trouble thinking", <<>>),
     opened_url |-> None,
     additional_context |-> None]

ExampleStream ==
    <<<<"The", " ", "sky", " ">>, <<"is", " ", "blue", ".">>,
      <<" ", "Isn't", " ">>, <<"that", " ", "nice", "?">>>>

StreamTokens ==
    {<<"Yes", ".">>, <<" ", "Well">>, <<"No", "!", " ", "Why", "?", " ">>,
     <<".", " ">>, <<" ">>}

Streams == SeqsUpTo(StreamTokens, MaxStreamTokens) \cup {ExampleStream}

NoStream ==
    [pc |-> "idle", stream |-> <<>>, tokens |-> <<>>, full_response |-> <<>>,
     sentence_buffer |-> <<>>, spoken |-> <<>>, flushed |-> 0, ret |-> None,
     log |-> <<>>]

\* the fallback of the router calls the client with the user's text
StartQuery(tokens) ==
    /\ stream.pc \in {"idle", "returned"}
    /\ stream' = [NoStream EXCEPT !.pc = "read", !.stream = tokens, !.tokens = tokens]
    /\ UNCHANGED beside_stream

\* a token arrives: it is appended to the full response and to the buffer
ReceiveToken ==
    /\ stream.pc = "read"
    /\ stream.tokens # <<>>
    /\ stream' = [stream EXCEPT !.pc = "split",
                                !.tokens = Tail(@),
                                !.full_response = @ \o Head(stream.tokens),
                                !.sentence_buffer = @ \o Head(stream.tokens)]
    /\ UNCHANGED beside_stream

\* one turn of the loop of the sentence rule, or its end
SplitBuffer ==
    /\ stream.pc = "split"
    /\ IF HasMark(stream.sentence_buffer)
       THEN LET cut == SplitSentence(stream.sentence_buffer)
            IN  stream' = [stream EXCEPT
                             !.spoken = IF cut.sentence # <<>>
                                        THEN Append(@, cut.sentence) ELSE @,
                             !.flushed = IF cut.sentence # <<>> THEN @ + 1 ELSE @,
                             !.sentence_buffer = cut.rest]
       ELSE stream' = [stream EXCEPT !.pc = "read"]
    /\ UNCHANGED beside_stream

\* the "done" marker: the final fragment is spoken and the dict returned
CompleteStream ==
    /\ stream.pc = "read"
    /\ stream.tokens = <<>>
    /\ stream' = [stream EXCEPT
                    !.pc = "done",
                    !.spoken = IF Strip(stream.sentence_buffer) # <<>>
                               THEN Append(@, Strip(stream.sentence_buffer)) ELSE @,
                    !.ret = Some(StreamedResult(stream.full_response))]
    /\ UNCHANGED beside_stream

\* a network error or the timeout ends the call
AbortStream ==
    /\ stream.pc \in {"read", "split"}
    /\ stream' = [stream EXCEPT !.pc = "done", !.ret = Some(TroubleThinkingResult)]
    /\ UNCHANGED beside_stream

\* process_command_from_user from "Assemble final spoken response" on, given
\* the client's dict as result
FinishFallback(say_ok) ==
    /\ stream.pc = "done"
    /\ LET env == [say_ok |-> say_ok, open_ok |-> TRUE]
           r == [StartRun EXCEPT !.result = stream.ret, !.source = "fallback"]
       IN  stream' = [stream EXCEPT
                        !.pc = "returned",
                        !.log = OpenWebpage(SpeakAnswer(r, env), env).log]
    /\ UNCHANGED beside_stream

NextStream ==
    \/ \E tokens \in Streams : StartQuery(tokens)
    \/ ReceiveToken
    \/ SplitBuffer
    \/ CompleteStream
    \/ AbortStream
    \/ \E say_ok \in BOOLEAN : FinishFallback(say_ok)

-----------------------------------------------------------------------------
(* The specifications. *)

InitCalc == calc_call = [text_command |-> <<>>, ret |-> None, raised |-> FALSE]

InitHandlers ==
    handler_call = [handler |-> "none", text_command |-> <<>>, ret |-> None,
                    log |-> <<>>]

InitStream == stream = NoStream

Init ==
    /\ InitTTS /\ InitRouter /\ InitOllama /\ InitCalc
    /\ InitSpeakers /\ InitHandlers /\ InitStream

Next ==
    \/ NextRouter \/ NextTTS \/ NextOllama \/ NextCalc
    \/ NextSpeakers \/ NextHandlers \/ NextStream

\* the router and the TTS module together
Spec == Init /\ [][Next]_vars

\* the router alone: julie_julie_app.py does not import the TTS module
InitRouterAlone == Init /\ ~google_available

SpecRouter == InitRouterAlone /\ [][NextRouter]_vars

\* the TTS module alone
SpecTTS == Init /\ [][NextTTS]_vars

\* the Ollama module alone.  A call of start_ollama_service in progress goes
\* on: every one of its steps is a call with a timeout or a sleep of one
\* second, in a thread nothing else holds up.
InitOllamaAlone == Init /\ ~google_available

\* the calculator, and the router given the calculator's commands
InitCalcAlone == Init /\ ~google_available

SpecCalc == InitCalcAlone /\ [][NextCalc]_vars

SpecOllama == InitOllamaAlone /\ [][NextOllama]_vars /\ WF_vars(StartStep)

\* the request threads in speak, with Google TTS available or not
SpecSpeakers == Init /\ [][NextSpeakers]_vars

\* the audio, radio and visualizer handlers, called directly
InitHandlersAlone == Init /\ ~google_available

SpecHandlers == InitHandlersAlone /\ [][NextHandlers]_vars

\* the streaming client and the end of the router's run
InitStreamAlone == Init /\ ~google_available

SpecStream == InitStreamAlone /\ [][NextStream]_vars

-----------------------------------------------------------------------------
(* Properties of the TTS module, stated on the last call made on it.        *)

\* the state of the manager when the last call began
Before == Get(tts_call.pre)

\* the last call ran TTSManager.speak: speak_text, or the voice test command
Spoke ==
    \/ tts_call.op = "speak"
    \/ tts_call.op = "handle_tts_command" /\ tts_call.branch = "test"

\* the force_fallback argument and the returned dict of that speak call
SpokeForced == tts_call.op = "speak" /\ tts_call.force
SpeakReturned ==
    IF tts_call.op = "speak" THEN Get(tts_call.ret)
    ELSE Get(tts_call.ret).additional_context

RemoteAttempted == tts_call.calls # <<>> /\ Head(tts_call.calls) = "_google_tts"
RemoteFailed == tts_call.calls = <<"_google_tts", "_say_fallback">>
OnlyWhitespace(text) == \A i \in 1..Len(text) : text[i] = " "

\* C6 as the specification words it: speak adds 1 to fallback_count when the
\* remote attempt fails and the local fallback then succeeds, returning the
\* fallback method with the new count, and leaves the count alone in every
\* other case, the one where the local fallback fails too included.
C6_CountsOnlyRescuedFailures ==
    Spoke =>
        /\ fallback_count = Before.fallback_count
               + (IF RemoteFailed /\ SpeakReturned.success THEN 1 ELSE 0)
        /\ RemoteFailed /\ SpeakReturned.success =>
               /\ SpeakReturned.method = "say_fallback"
               /\ SpeakReturned.fallback_count = fallback_count

\* C6, amended: speak adds 1 to fallback_count whenever its remote attempt
\* fails, whether or not the local fallback then succeeds; when it succeeds
\* the call returns the fallback method with the new count; in every other
\* case (remote success, remote not attempted, empty text) the count stays.
C6_CountsEveryFailedRemoteAttempt ==
    Spoke =>
        /\ fallback_count = Before.fallback_count + (IF RemoteFailed THEN 1 ELSE 0)
        /\ RemoteFailed /\ SpeakReturned.success =>
               /\ SpeakReturned.method = "say_fallback"
               /\ SpeakReturned.fallback_count = Before.fallback_count + 1
        /\ ~RemoteFailed /\ SpeakReturned.success =>
               SpeakReturned.fallback_count = Before.fallback_count

\* the remote attempt and the local fallback both failed, and the count rose
C6_BothFailedAndCounted ==
    /\ Spoke
    /\ RemoteFailed
    /\ ~SpeakReturned.success
    /\ SpeakReturned.method = "none"
    /\ fallback_count = Before.fallback_count + 1

\* C7: speak with empty or whitespace-only text returns success false with
\* method "none" and the no-text error, calls neither _google_tts nor
\* _say_fallback, and leaves the manager's state as it was.
C7_NoTextNoSpeech ==
    tts_call.op = "speak" /\ OnlyWhitespace(tts_call.text) =>
        /\ tts_call.ret = Some([success |-> FALSE, error |-> "No text provided",
                                method |-> "none"])
        /\ tts_call.calls = <<>>
        /\ TTSState = Before

\* whitespace-only text was refused while the remote path was ready
C7_WhitespaceRefused ==
    /\ tts_call.op = "speak"
    /\ tts_call.text = <<" ">>
    /\ ~tts_call.force
    /\ Before.use_google_tts /\ Before.google_available
    /\ Get(tts_call.ret).method = "none"
    /\ tts_call.calls = <<>>

\* C8: speak attempts the remote path only when force_fallback is false, the
\* preference is on and credentials were found at startup; a forced call
\* never attempts it and reports "say_direct" when it succeeds; and while a
\* 'use local voice' command is the last change of the preference, no speak
\* call attempts the remote path.
C8_RemoteOnlyWhenAllowed ==
    Spoke =>
        /\ RemoteAttempted =>
               ~SpokeForced /\ Before.use_google_tts /\ Before.google_available
        /\ SpokeForced =>
               /\ ~RemoteAttempted
               /\ SpeakReturned.success => SpeakReturned.method = "say_direct"
        /\ tts_call.last_pref = "local" =>
               /\ ~Before.use_google_tts
               /\ ~RemoteAttempted

\* after 'use local voice', with credentials present, an unforced speak call
\* went straight to the local command
C8_LocalAfterLocalVoiceCommand ==
    /\ tts_call.op = "speak"
    /\ tts_call.last_pref = "local"
    /\ Before.google_available
    /\ ~tts_call.force
    /\ tts_call.calls = <<"_say_fallback">>
    /\ Get(tts_call.ret).success

\* C9: whatever is called on the TTS module (speak, a preference change, a
\* status query, a voice command), fallback_count never decreases.
C9_FallbackCountNeverDecreases == [][fallback_count' >= fallback_count]_vars

\* a preference change made when the count was positive has kept the count
C9_CountKeptAcrossPreferenceChange ==
    /\ tts_call.op \in {"set_google_preference", "handle_tts_command"}
    /\ tts_call.last_pref # "none"
    /\ Before.fallback_count > 0
    /\ fallback_count = Before.fallback_count

\* C10: a preference command of handle_tts_command changes use_google_tts
\* only: google_available keeps the value found at startup and fallback_count
\* stays; a status command changes nothing.
C10_PreferenceCommandsChangeOnlyThePreference ==
    tts_call.op = "handle_tts_command" =>
        /\ tts_call.branch = "google" =>
               TTSState = [Before EXCEPT !.use_google_tts = TRUE]
        /\ tts_call.branch = "local" =>
               TTSState = [Before EXCEPT !.use_google_tts = FALSE]
        /\ tts_call.branch = "status" => TTSState = Before

\* 'use local voice' has turned the preference off, with credentials present
\* and a positive count
C10_SwitchedToLocal ==
    /\ tts_call.op = "handle_tts_command"
    /\ tts_call.branch = "local"
    /\ Before.use_google_tts /\ ~use_google_tts
    /\ google_available
    /\ fallback_count > 0

-----------------------------------------------------------------------------
(* Properties of the router, stated on the response to the last command.    *)

HandlerNames ==
    {"handle_time_command", "handle_weather_command", "handle_search_command",
     "handle_youtube_command", "handle_wiki_command",
     "handle_open_website_command", "handle_help_command"}

\* the handlers whose patterns a normalized command matches, in the order of
\* the router's branches
Matching(c) ==
    (IF MatchesTime(c) THEN <<"handle_time_command">> ELSE <<>>)
    \o (IF MatchesWeather(c) THEN <<"handle_weather_command">> ELSE <<>>)
    \o (IF MatchesSearch(c) THEN <<"handle_search_command">> ELSE <<>>)
    \o (IF ~IsNone(YoutubeQuery(c)) THEN <<"handle_youtube_command">> ELSE <<>>)
    \o (IF ~IsNone(InfoTopic(c)) THEN <<"handle_wiki_command">> ELSE <<>>)
    \o (IF MatchesOpen(c) THEN <<"handle_open_website_command">> ELSE <<>>)
    \o (IF MatchesHelp(c) THEN <<"handle_help_command">> ELSE <<>>)

\* the entries of a log that satisfy Keep, in order
RECURSIVE Only(_, _)
Only(log, Keep) ==
    IF log = <<>> THEN <<>>
    ELSE (IF Head(log) \in Keep THEN <<Head(log)>> ELSE <<>>) \o Only(Tail(log), Keep)

Entries(log) == {log[i] : i \in DOMAIN log}

\* a response is there, to a command that is neither None nor ""
Routed ==
    /\ ~IsNone(response)
    /\ Get(response).text_command \notin {None, Some(<<>>)}

LastRun == Get(response).run
LastLog == Get(response).run.log
LastMatching == Matching(Strip(Lower(Get(Get(response).text_command))))

\* C1 as the specification words it: when a command matches several
\* handlers, the returned result is that of the first matching handler in
\* the router's order, and no handler after it is called: no later handler's
\* external call or result replaces it.
C1_FirstMatchWins ==
    Routed /\ LastRun.outcome = "returned" /\ LastMatching # <<>> =>
        /\ LastRun.source = Head(LastMatching)
        /\ Only(LastLog, HandlerNames) = <<Head(LastMatching)>>
        /\ "requests.get" \in Entries(LastLog) =>
               Head(LastMatching) = "handle_weather_command"

\* a command that matches the weather and the help patterns: the weather
\* handler asked the weather service, then the help handler ran and its
\* result is the one returned
C1_LaterHandlerReplacedResult ==
    /\ Routed
    /\ LastRun.outcome = "returned"
    /\ LastMatching = <<"handle_weather_command", "handle_help_command">>
    /\ Only(LastLog, HandlerNames \cup {"requests.get"})
           = <<"handle_weather_command", "requests.get", "handle_help_command">>
    /\ LastRun.source = "handle_help_command"
    /\ Get(LastRun.ret).spoken_response = handle_help_command.spoken_response

\* C2: for a command that is None or "", process_command_from_user returns
\* the fixed "I didn't receive any command" dict and calls no handler, no
\* `say` and no webbrowser.open; POST /command with such a command does not
\* call the router at all.
C2_EmptyCommandFixedResult ==
    /\ ~IsNone(response)
    /\ Get(response).text_command \in {None, Some(<<>>)}
    =>
    /\ Get(response).via = "call" =>
           /\ LastRun.outcome = "returned"
           /\ LastRun.ret = Some(EmptyCommandResult)
           /\ LastLog = <<"return">>
           /\ LastRun.calls = 0
    /\ Get(response).via = "/command" => LastRun = NotCalled

\* "" was given to the router directly and the fixed dict came back
C2_EmptyStringAnswered ==
    /\ ~IsNone(response)
    /\ Get(response).via = "call"
    /\ Get(response).text_command = Some(<<>>)
    /\ LastRun.ret = Some(EmptyCommandResult)

C4_HandlerExceptionCaught ==
    Routed /\ "raise" \in Entries(LastLog) => LastRun.outcome = "returned"

\* C4, amended: nothing in process_command_from_user catches an exception
\* raised by a handler.  The exception leaves the function at the call: no
\* later handler runs, nothing is spoken or opened and no dict is returned.
\* POST /command answers it with HTTP 500 and status "error".
C4_HandlerExceptionAbortsTheRun ==
    Routed /\ "raise" \in Entries(LastLog) =>
        /\ LastRun.outcome = "raised"
        /\ LastRun.ret = None
        /\ LastLog[Len(LastLog)] = "raise"
        /\ LastLog[Len(LastLog) - 1] \in HandlerNames
        /\ Entries(LastLog)
               \cap {"fallback", "say", "webbrowser.open", "return"} = {}
        /\ Get(response).via = "/command" =>
               /\ Get(Get(response).http).code = 500
               /\ Get(Get(response).http).status = "error"

\* the first of two matching handlers raised during POST /command: the second
\* never ran and the answer is HTTP 500
C4_RaisedBeforeSecondHandler ==
    /\ Routed
    /\ Get(response).via = "/command"
    /\ Len(LastMatching) = 2
    /\ LastLog = <<Head(LastMatching), "raise">>
    /\ Get(Get(response).http).code = 500

\* C5: in a run that returns a result with something to speak, `say` is
\* started once, after the last handler or fallback has set the result, and
\* is over (exited or failed) before the function returns; nothing is spoken
\* after the return.
C5_SpeechBetweenResultAndReturn ==
    /\ Routed
    /\ LastRun.outcome = "returned"
    /\ FullSpokenResponse(Get(LastRun.ret)) # <<>>
    =>
    /\ Len(Only(LastLog, {"say"})) = 1
    /\ LastLog[Len(LastLog)] = "return"
    /\ \A i \in DOMAIN LastLog :
           LastLog[i] = "say" =>
               /\ i < Len(LastLog)
               /\ LastLog[i + 1] \in {"say exited", "say failed"}
               /\ \A j \in 1..(i - 1) : LastLog[j] # "return"
               /\ \A j \in (i + 1)..Len(LastLog) :
                      LastLog[j] \notin HandlerNames \cup {"fallback", "requests.get"}

\* the weather handler's answer was spoken, `say` exited, and then the
\* function returned
C5_SpokenThenReturned ==
    /\ Routed
    /\ LastLog = <<"handle_weather_command", "requests.get", "say", "say exited",
                   "return">>

-----------------------------------------------------------------------------
(* Properties of the Ollama module, stated on the call in progress or the   *)
(* last call.                                                               *)

OllamaBefore == Get(ollama_call.pre)

\* the call has run switch_model: directly, or in the switch branch of
\* handle_ollama_command once the service answered the probe
RanSwitchModel ==
    \/ ollama_call.op = "switch_model"
    \/ /\ ollama_call.op = "handle_ollama_command"
       /\ ollama_call.branch = "switch"
       /\ ollama_call.probes >= 2

\* the name switch_model was called with, and whether it returned True
SwitchRequested ==
    IF ollama_call.op = "switch_model" THEN ollama_call.arg
    ELSE SwitchRequest(ollama_call.arg)
SwitchSucceeded ==
    IF ollama_call.op = "switch_model" THEN Get(ollama_call.ok)
    ELSE Get(ollama_call.reply).spoken_response.template = "Switched to model {}."

\* the available names equal to the request, and those that contain it
\* without regard to case
ExactNames == {ollama_call.listed[i] : i \in {j \in DOMAIN ollama_call.listed :
                                                ollama_call.listed[j] = SwitchRequested}}
ContainingNames ==
    {ollama_call.listed[i] : i \in {j \in DOMAIN ollama_call.listed :
         Contains(Lower(ollama_call.listed[j]), Lower(SwitchRequested))}}

\* C11 as the specification words it: switch_model sets model_name only to
\* an available name, the one equal to the request or the single one that
\* contains it; when no available name or more than one available name
\* matches the request, it returns false and model_name stays.
C11_SwitchOnlyOnSingleMatch ==
    RanSwitchModel =>
        /\ SwitchSucceeded =>
               /\ ollama.model_name \in Entries(ollama_call.listed)
               /\ \/ ollama.model_name = SwitchRequested
                  \/ ContainingNames = {ollama.model_name}
        /\ Cardinality(ExactNames \cup ContainingNames) # 1 =>
               /\ ~SwitchSucceeded
               /\ ollama.model_name = OllamaBefore.model_name

\* C11, amended: switch_model sets model_name only to an available name: the
\* one equal to the request, which wins even when other available names
\* contain the request too, or else the single one that contains it.  It
\* returns false and leaves model_name alone exactly when no available name
\* equals the request and the names containing it are none or several.
\* Nothing else changes model_name.
C11_ExactMatchElseSinglePartialMatch ==
    /\ RanSwitchModel =>
           /\ SwitchSucceeded <=>
                  (ExactNames # {} \/ Cardinality(ContainingNames) = 1)
           /\ SwitchSucceeded =>
                  /\ ollama.model_name \in Entries(ollama_call.listed)
                  /\ IF ExactNames # {} THEN ollama.model_name = SwitchRequested
                     ELSE ContainingNames = {ollama.model_name}
           /\ ~SwitchSucceeded => ollama.model_name = OllamaBefore.model_name
    /\ /\ ~IsNone(ollama_call.pre)
       /\ ollama.model_name # OllamaBefore.model_name
       => RanSwitchModel /\ SwitchSucceeded

\* the request equals one available name and is contained in another, and
\* the model was switched to the equal one
C11_ExactAmongSeveral ==
    /\ ollama_call.op = "switch_model"
    /\ ollama_call.arg = <<"llama3">>
    /\ ollama_call.listed = <<<<"llama3">>, <<"llama3", ".2">>>>
    /\ OllamaBefore.model_name = <<"llama3", ".2">>
    /\ ollama.model_name = <<"llama3">>
    /\ ollama_call.ok = Some(TRUE)

\* a call is inside start_ollama_service, or has returned from it
InStart == ollama_call.pc # "idle"
ReturnedFromStart ==
    /\ ollama_call.pc = "idle"
    /\ ~IsNone(ollama_call.ok)
    /\ \/ ollama_call.op = "start_ollama_service"
       \/ ollama_call.op = "handle_ollama_command"
       \/ ollama_call.op = "ensure_ollama_available" /\ ~ollama_call.found_running

\* the probes the readiness loop has made so far
ReadinessProbes == ollama_call.readiness

StartProbesBounded ==
    /\ InStart \/ ReturnedFromStart => ReadinessProbes <= startup_timeout
    /\ ollama_call.pc \in {"check_model", "pull"} => ollama.is_running
    /\ ReturnedFromStart /\ ollama_call.launched = 1 =>
           IF Get(ollama_call.ok)
           THEN ollama.is_running /\ ReadinessProbes >= 1
           ELSE ~ollama.is_running /\ ReadinessProbes = startup_timeout

\* C12: a call of start_ollama_service always returns; once it has started
\* `ollama serve` it probes at most startup_timeout = 30 times, returns true
\* after the first probe that succeeds and false when all 30 have failed.
C12_StartTerminatesWithinTimeout ==
    /\ []StartProbesBounded
    /\ InStart ~> ReturnedFromStart

\* start_ollama_service has returned false after 30 failed probes
C12_GaveUpAfterThirtyProbes ==
    /\ ollama_call.op = "start_ollama_service"
    /\ ollama_call.pc = "idle"
    /\ ollama_call.ok = Some(FALSE)
    /\ ollama_call.launched = 1
    /\ ollama_call.readiness = startup_timeout

\* C13: when the probe of ensure_ollama_available finds the service
\* unreachable and auto-start is disabled, the call returns false and starts
\* no process; and auto_start_enabled changes only in the enable and disable
\* auto-start commands.
C13_NoAutoStartWhenDisabled ==
    /\ /\ ollama_call.op = "ensure_ollama_available"
       /\ ~ollama_call.found_running
       /\ ~OllamaBefore.auto_start_enabled
       => /\ ollama_call.pc = "idle"
          /\ ollama_call.ok = Some(FALSE)
          /\ ollama_call.launched = 0
          /\ ollama_call.spawned = 0
          /\ ollama.ollama_process = OllamaBefore.ollama_process
    /\ /\ ~IsNone(ollama_call.pre)
       /\ ollama.auto_start_enabled # OllamaBefore.auto_start_enabled
       => /\ ollama_call.op = "handle_ollama_command"
          /\ ollama_call.branch \in {"enable", "disable"}

\* with auto-start disabled and the service down, ensure_ollama_available
\* has returned false
C13_RefusedWithAutoStartOff ==
    /\ ollama_call.op = "ensure_ollama_available"
    /\ ~ollama_call.found_running
    /\ ~OllamaBefore.auto_start_enabled
    /\ ollama_call.ok = Some(FALSE)
    /\ ollama_call.probes = 1

-----------------------------------------------------------------------------
(* Properties of the two endpoints, stated on the last response.            *)

ServedByEndpoint == ~IsNone(response) /\ Get(response).via \in Endpoints
LastRequest == Get(response).request
LastHttp == Get(Get(response).http)

\* C14: a POST to /command or to /activate_listening whose JSON object has
\* no text_command key, or whose form has no text_command field, is answered
\* with HTTP 400 and status "error", and the router is not called.
C14_MissingCommandRejected ==
    ServedByEndpoint /\ ~LastRequest.present =>
        /\ LastHttp.code = 400
        /\ LastHttp.status = "error"
        /\ Get(response).routed = 0
        /\ LastRun = NotCalled

\* a form without the field was posted to /activate_listening and refused
C14_FormWithoutFieldRefused ==
    /\ ServedByEndpoint
    /\ LastRequest.via = "/activate_listening"
    /\ LastRequest.encoding = "form"
    /\ ~LastRequest.present
    /\ LastHttp.code = 400

\* C15: when the router raises while an endpoint serves a command, the
\* response is HTTP 500 with status "error" and a message made with the
\* exception's text; the response is delivered and the caller can send the
\* next request, which the endpoint answers as it answers any request.
C15_ExceptionAnswered500 ==
    /\ ServedByEndpoint /\ LastRun.outcome = "raised" =>
           /\ LastHttp.code = 500
           /\ LastHttp.status = "error"
           /\ ~IsNone(LastRun.error)
           /\ LastHttp.message.args = <<Get(LastRun.error)>>
           /\ ENABLED Resubmit
           /\ ENABLED TakeResponse
    /\ /\ ServedByEndpoint
       /\ ~IsNone(memo)
       /\ Get(memo).outcome = "raised"
       => \E env \in EnvsFor(Get(response).text_command) :
              \E served \in {IF LastRequest.via = "/command"
                              THEN command_endpoint(LastRequest, env)
                              ELSE activate_listening_endpoint(LastRequest, env)} :
                  /\ served.run = LastRun
                  /\ served.http = Get(response).http

\* the request after one that ended in a 500 response was answered 200
C15_ServedAfterFailure ==
    /\ ServedByEndpoint
    /\ ~IsNone(memo)
    /\ Get(memo).outcome = "raised"
    /\ LastRun.outcome = "returned"
    /\ LastHttp.code = 200

\* C16: for a non-empty text_command, both endpoints, with a JSON body or
\* with a form, call the router exactly once with the command as it was
\* sent; the run of the router is the one a direct call with that command
\* makes, whatever the endpoint and the encoding; and when the router
\* returns, the response is HTTP 200 with status "success" and the router's
\* result as details.
C16_EndpointsPassTheCommandUnchanged ==
    /\ ServedByEndpoint
    /\ LastRequest.present
    /\ ~IsEmptyCommand(LastRequest.text_command)
    => /\ Get(response).routed = 1
       /\ LastRun.arg = LastRequest.text_command
       /\ \E env \in EnvsFor(LastRequest.text_command) :
              LastRun = process_command_from_user(LastRequest.text_command, env)
       /\ LastRun.outcome = "returned" =>
              /\ LastHttp.code = 200
              /\ LastHttp.status = "success"
              /\ LastHttp.details = LastRun.ret
              /\ Get(LastRun.ret).processed_command = Get(LastRequest.text_command)

\* a command with blanks around it was posted as a form to
\* /activate_listening and reached the router as it was
C16_FormCommandWithBlanksServed ==
    /\ ServedByEndpoint
    /\ LastRequest.via = "/activate_listening"
    /\ LastRequest.encoding = "form"
    /\ LastRequest.text_command = Some(<<" ", "time", " ">>)
    /\ LastHttp.code = 200
    /\ Get(LastRun.ret).processed_command = <<" ", "time", " ">>

\* the failure of `say`, or of opening the browser, in the run
SayFailed == \E i \in DOMAIN LastLog : LastLog[i] = "say failed"
OpenFailed == \E i \in DOMAIN LastLog : LastLog[i] = "open failed"

\* C17: when `say` fails or the browser cannot be opened during a run, the
\* except clause absorbs the failure: the router returns, its result is the
\* one it returns when both succeed, and an endpoint answers HTTP 200 with
\* status "success" and that result.
C17_SpeechAndBrowserFailuresAbsorbed ==
    ~IsNone(response) /\ (SayFailed \/ OpenFailed) =>
        /\ LastRun.outcome = "returned"
        /\ \E env \in EnvsFor(Get(response).text_command) :
               /\ env.say_ok /\ env.open_ok
               /\ process_command_from_user(Get(response).text_command, env).ret
                      = LastRun.ret
        /\ Get(response).via \in Endpoints =>
               /\ LastHttp.code = 200
               /\ LastHttp.status = "success"
               /\ LastHttp.details = LastRun.ret

\* `say` and the browser have both failed in a run an endpoint answered 200
C17_BothFailedAndAnswered ==
    /\ ServedByEndpoint
    /\ SayFailed
    /\ OpenFailed
    /\ LastHttp.code = 200
    /\ ~IsNone(Get(LastRun.ret).opened_url)

-----------------------------------------------------------------------------
(* Handlers and the commands of other categories.                           *)

\* a command of the voice category (handle_tts_command answers it) or the
\* time question: not a command about the Ollama service or its models
NotAnOllamaCommand(text_command) ==
    \/ TtsBranch(text_command) # "none"
    \/ text_command = <<"what", "time", "is", "it">>

HandledByOllama ==
    /\ ollama_call.op = "handle_ollama_command"
    /\ ollama_call.pc = "idle"

\* C18, for handle_ollama_command: a command that is not of its category
\* gets None, and the call sends no HTTP request, starts and stops no
\* process and leaves the manager's state as it was.
C18_ForeignCommandGetsNullAndNoEffect ==
    HandledByOllama /\ NotAnOllamaCommand(ollama_call.arg) =>
        /\ IsNone(ollama_call.reply)
        /\ ollama_call.probes = 0
        /\ ollama_call.spawned = 0
        /\ ollama_call.terminated = 0
        /\ ollama = OllamaBefore

\* the voice command "switch to say" was answered by handle_ollama_command
\* after a request to the Ollama service
C18_VoiceCommandTakenAsModelSwitch ==
    /\ HandledByOllama
    /\ ollama_call.arg = <<"switch", "to", "say">>
    /\ ollama_call.branch = "switch"
    /\ ollama_call.probes >= 1
    /\ ~IsNone(ollama_call.reply)

-----------------------------------------------------------------------------
(* The time question through the router.                                    *)

\* the last command had one of the time phrases and the router returned
TimeCommandReturned ==
    /\ ~IsNone(response)
    /\ ~IsEmptyCommand(Get(response).text_command)
    /\ MatchesTime(Strip(Lower(Get(Get(response).text_command))))
    /\ LastRun.outcome = "returned"

\* C19: for a command with a recognised time phrase, what the router returns
\* is the time handler's result: "The current time is hh:mm AM/PM." on a
\* 12-hour clock, and no opened_url.
C19_TimePhraseGetsTheTimeResult ==
    TimeCommandReturned =>
        /\ LastRun.source = "handle_time_command"
        /\ IsNone(Get(LastRun.ret).opened_url)
        /\ \E now \in Clocks :
               Get(LastRun.ret).spoken_response = handle_time_command(now).spoken_response

\* "search what time is it": the time branch ran, and the router returned
\* the search handler's result with the URL it opened
C19_TimeResultReplacedBySearch ==
    /\ TimeCommandReturned
    /\ Get(response).text_command = Some(<<"search", "what", "time", "is", "it">>)
    /\ LastLog[1] = "handle_time_command"
    /\ LastRun.source = "handle_search_command"
    /\ ~IsNone(Get(LastRun.ret).opened_url)

-----------------------------------------------------------------------------
(* The calculator, called directly and reached through the router.          *)

\* x = h / 100 written with two decimals, for h >= 0
Amount(h) == <<ToString(h \div 100), ".">> \o Pad2(h % 100)

\* the reply has this text in one of the values of its spoken_response
Says(reply, text) ==
    \E i \in DOMAIN reply.spoken_response.args :
        Contains(reply.spoken_response.args[i], text)

\* the reply has the result of "a op b": the whole number for +, - and *,
\* and for / a number within half a hundredth of the quotient
SaysResult(reply, op, a, b) ==
    CASE op = "+" -> Says(reply, <<ToString(a + b)>>)
      [] op = "-" -> Says(reply, <<ToString(a - b)>>)
      [] op = "*" -> Says(reply, <<ToString(a * b)>>)
      [] op = "/" -> \E h \in 0..(100 * Max(Operands)) :
                         /\ 2 * Abs(100 * a - h * b) <= b
                         /\ Says(reply, Amount(h))

\* the reply to text_command is the one the claim asks for, when the
\* command is a sum, a difference, a product, a quotient with a divisor
\* that is not zero, or a tip
GivesTheResult(text_command, reply) ==
    /\ \A k \in DOMAIN ArithmeticPatterns, a \in Operands, b \in Operands :
           /\ text_command = ArithmeticCommand(k, a, b)
           /\ ~(ArithmeticPatterns[k].op = "/" /\ b = 0)
           => ~IsNone(reply) /\ SaysResult(Get(reply), ArithmeticPatterns[k].op, a, b)
    /\ \A p \in Operands, x \in Operands :
           text_command = TipCommand(p, x)
           => /\ ~IsNone(reply)
              /\ Says(Get(reply), Amount(p * x))
              /\ Says(Get(reply), Amount(100 * x + p * x))

\* handle_calculation alone gives the result
CalculatorGivesTheResult ==
    GivesTheResult(calc_call.text_command, calc_call.ret)

\* a call of the router with the calculator's command has returned
CalculationRouted ==
    /\ ~IsNone(response)
    /\ calc_call.text_command # <<>>
    /\ Get(response).text_command = Some(calc_call.text_command)
    /\ LastRun.outcome = "returned"

\* C20: for "a + b", the other three operations and their spoken forms, the
\* reply has the result, and for "p% tip on $x" it has the tip and the
\* total: the reply of handle_calculation, and the reply the router returns
\* for the same command.
C20_CalculationAnsweredDirectlyAndThroughRouter ==
    /\ CalculatorGivesTheResult
    /\ CalculationRouted => GivesTheResult(calc_call.text_command, LastRun.ret)

\* "47 + 23": handle_calculation answered 70.00, and the router answered
\* that it does not know the command, after calling no handler
C20_RouterDoesNotCalculate ==
    /\ CalculationRouted
    /\ calc_call.text_command = <<"47", "+", "23">>
    /\ Says(Get(calc_call.ret), <<"70", ".", "0", "0">>)
    /\ LastRun.source = "fallback"
    /\ LastRun.calls = 0
    /\ ~Says(Get(LastRun.ret), <<"70">>)

-----------------------------------------------------------------------------
(* What a true result of ensure_ollama_available stands for.                *)

EnsureReturned ==
    /\ ollama_call.op = "ensure_ollama_available"
    /\ ollama_call.pc = "idle"
    /\ ~IsNone(ollama_call.ok)

\* C26: when ensure_ollama_available returns true, the service answered a
\* probe, and check_model_available found the model or pull_model fetched
\* it, on each of its paths.
C26_TrueMeansModelAvailable ==
    EnsureReturned /\ Get(ollama_call.ok) =>
        /\ ollama.is_running
        /\ \/ ollama_call.model_found = Some(TRUE)
           \/ ollama_call.pulled = Some(TRUE)

\* the service was started by the call, the model was missing, the pull
\* failed, and ensure_ollama_available returned true
C26_TrueAfterFailedPull ==
    /\ EnsureReturned
    /\ ollama_call.launched = 1
    /\ ollama_call.model_found = Some(FALSE)
    /\ ollama_call.pulled = Some(FALSE)
    /\ ollama_call.ok = Some(TRUE)

-----------------------------------------------------------------------------
(* The voice-preference phrases given to handle_ollama_command.             *)

\* the command has one of the six phrases by which handle_tts_command
\* changes the voice
HasVoicePreferencePhrase(text_command) ==
    ContainsAny(Strip(Lower(text_command)), GooglePhrases \cup LocalPhrases)

\* C27: for a command with a voice-preference phrase, handle_ollama_command
\* returns None, sends no request to the service and leaves model_name as
\* it was.
C27_VoicePhrasesAreNotModelSwitches ==
    HandledByOllama /\ HasVoicePreferencePhrase(ollama_call.arg) =>
        /\ IsNone(ollama_call.reply)
        /\ ollama_call.probes = 0
        /\ ollama.model_name = OllamaBefore.model_name

\* "use say command" went past the exclusion list of the "use " branch and
\* was looked up as the model "say command"
C27_UseSayCommandProbedTheService ==
    /\ HandledByOllama
    /\ ollama_call.arg = <<"use", "say", "command">>
    /\ SwitchRequest(ollama_call.arg) = <<"say", "command">>
    /\ ollama_call.probes >= 1
    /\ ~IsNone(ollama_call.reply)

-----------------------------------------------------------------------------
(* The manager's state after a stop command.                                *)

StopReturned ==
    /\ HandledByOllama
    /\ ollama_call.branch = "stop"

\* C28 as the specification words it: after a stop the manager holds no
\* process handle and is_running is false, whatever the outcome of the
\* termination and whatever the state before.
C28_StoppedWhateverTheStateBefore ==
    StopReturned =>
        /\ ~ollama.ollama_process
        /\ ~ollama.is_running

\* C28, amended: after a stop the manager holds no process handle.  When it
\* held one before, is_running is false afterwards, whether the process
\* exited, was killed after the timeout, or the termination raised.  When it
\* held none, the stop changes nothing: is_running keeps the value of the
\* last probe.
C28_StopClearsTheHandleItHeld ==
    StopReturned =>
        /\ ~ollama.ollama_process
        /\ IF OllamaBefore.ollama_process
           THEN /\ ~ollama.is_running
                /\ ollama_call.terminated = 1
                /\ ollama_call.stop_outcome \in StopOutcomes
           ELSE /\ ollama = OllamaBefore
                /\ ollama_call.terminated = 0

\* the termination raised, and the handle is gone all the same
C28_HandleClearedAfterTerminationRaised ==
    /\ StopReturned
    /\ OllamaBefore.ollama_process
    /\ OllamaBefore.is_running
    /\ ollama_call.stop_outcome = "raised"
    /\ ~ollama.ollama_process
    /\ ~ollama.is_running

-----------------------------------------------------------------------------
(* The serving processes the manager launches.  self.ollama_process is the  *)
(* one handle; a process whose handle was overwritten (orphaned) can no     *)
(* longer be terminated by stop_ollama_service.                             *)

\* C30: whatever the start and stop commands, every process that
\* start_ollama_service launched and no stop has terminated is the one the
\* manager holds the handle of: no start overwrites the handle of a process
\* launched before, a start that launched a process leaves its handle in
\* place (also when the readiness loop times out), and a stop terminates
\* the process whose handle is held.
C30_NoLaunchedProcessWithoutHandle ==
    /\ ollama_call.orphaned = 0
    /\ ollama_call.launched = 1 => ollama.ollama_process
    /\ StopReturned /\ OllamaBefore.ollama_process => ollama_call.terminated = 1

\* a start command came while the handle of an earlier process was held: a
\* second process was launched and its handle replaced the first
C30_SecondStartReplacedTheHandle ==
    /\ ollama_call.op = "handle_ollama_command"
    /\ ollama_call.branch = "start"
    /\ OllamaBefore.ollama_process
    /\ ollama_call.launched = 1
    /\ ollama_call.orphaned = 1
    /\ ollama.ollama_process

-----------------------------------------------------------------------------
(* The fallback counter under concurrent calls of speak.  fallback_count is *)
(* 0 when the manager is built and only speak writes it.                    *)

AllSpeakersReturned == \A t \in Speakers : speakers[t].pc = "idle"

\* C29: when every call of speak so far has returned, and in each call whose
\* Google attempt failed the local fallback then spoke, fallback_count has
\* grown by exactly the number of those calls: no increment is lost to the
\* interleaving of the threads.
C29_EveryConcurrentFailureIsCounted ==
    (AllSpeakersReturned /\ FailuresRescued = FailuresOfGoogle)
        => fallback_count = FailuresRescued

\* two calls on two threads failed over to the local voice and the counter
\* grew by one
C29_TwoFailuresCountedOnce ==
    /\ AllSpeakersReturned
    /\ \A t \in Speakers : speakers[t].rescued = 1 /\ speakers[t].begun = 1
    /\ FailuresOfGoogle = 2
    /\ fallback_count = 1

-----------------------------------------------------------------------------
(* The audio, radio and visualizer handlers, stated on the last call.       *)

HandlerCommand == Strip(Lower(handler_call.text_command))

AudioCalled == handler_call.handler = "handle_audio_command"

\* the shapes of the tests: the three listing commands, 'switch to <name>'
\* and 'use <name>'
ListingCommands ==
    {<<"list", "audio", "device", "s">>, <<"show", "speaker", "s">>,
     <<"what", "sound", "device", "s">>}

IsSwitchingCommand(command) ==
    \/ StartsWith(command, <<"switch", "to">>) /\ Len(command) > 2
    \/ StartsWith(command, <<"use">>) /\ Len(command) > 1

\* C21: handle_audio_command returns a result for every listing command of
\* the tests and for every 'switch to <name>' and 'use <name>', and returns
\* None for a command that has none of these shapes and no audio keyword.
C21_AudioCommandsAreAnswered ==
    AudioCalled =>
        /\ (HandlerCommand \in ListingCommands \/ IsSwitchingCommand(HandlerCommand))
              => ~IsNone(handler_call.ret)
        /\ (/\ HandlerCommand \notin ListingCommands
            /\ ~IsSwitchingCommand(HandlerCommand)
            /\ ~_is_audio_request(HandlerCommand))
              => IsNone(handler_call.ret)

\* 'use bluetooth' was given to the handler and it returned None
C21_UseBluetoothReturnedNone ==
    /\ AudioCalled
    /\ handler_call.text_command = <<"use", "bluetooth">>
    /\ IsNone(handler_call.ret)

RadioCalled == handler_call.handler = "handle_radio_command"

StationNamed == _determine_station(HandlerCommand)

ListedStations ==
    /\ ~IsNone(handler_call.ret)
    /\ Get(handler_call.ret).spoken_response = _list_available_stations.ret.spoken_response
    /\ IsNone(Get(handler_call.ret).opened_url)
    /\ handler_call.log = <<>>

OpenedOnce(url) ==
    /\ Len(handler_call.log) = 1
    /\ handler_call.log[1].call = "webbrowser.open"
    /\ handler_call.log[1].url = url

Playing(station) ==
    /\ ~IsNone(handler_call.ret)
    /\ Get(handler_call.ret).spoken_response
          = Text("Playing {}. Enjoy the music!", <<station.name>>)
    /\ Get(handler_call.ret).opened_url = Some(station.url)

CouldNotStart(station) ==
    /\ ~IsNone(handler_call.ret)
    /\ Get(handler_call.ret).spoken_response
          = Text("I couldn't start {} right now.", <<station.name>>)
    /\ IsNone(Get(handler_call.ret).opened_url)

VisualizerCalled == handler_call.handler = "handle_visualizer_command"

\* C25: a command that contains an off phrase runs _stop_visualizer and not
\* _start_visualizer; a command that contains an on phrase and no off phrase
\* runs _start_visualizer.
C25_OffPhrasesStopTheVisualizer ==
    VisualizerCalled =>
        /\ ContainsAny(HandlerCommand, OffPatterns)
              => handler_call.log = <<"_stop_visualizer">>
        /\ (ContainsAny(HandlerCommand, OnPatterns)
                /\ ~ContainsAny(HandlerCommand, OffPatterns))
              => handler_call.log = <<"_start_visualizer">>

\* 'stop visualizer' was given to the handler and it started the visualizer
C25_StopVisualizerStartedIt ==
    /\ VisualizerCalled
    /\ handler_call.text_command = <<"stop", "visualizer">>
    /\ handler_call.log = <<"_start_visualizer">>
    /\ ~IsNone(handler_call.ret)

-----------------------------------------------------------------------------
(* The sentences the streaming client speaks, stated on the call in         *)
(* progress or the last call.                                               *)

\* the text without its spaces
Unspaced(text) == SelectSeq(text, LAMBDA piece : piece # " ")

\* a trimmed text that ends with its only mark
IsSentence(text) ==
    /\ text # <<>>
    /\ Head(text) # " "
    /\ text[Len(text)] \in Marks
    /\ \A i \in 1..(Len(text) - 1) : text[i] \notin Marks

StreamCompleted ==
    /\ stream.pc \in {"done", "returned"}
    /\ stream.ret = Some(StreamedResult(stream.full_response))

TheSkyIsBlue == <<"The", " ", "sky", " ", "is", " ", "blue", ".">>

IsntThatNice == <<"Isn't", " ", "that", " ", "nice", "?">>

\* C23: the client speaks complete sentences in the order of the stream.
\* Each text the sentence rule gives to the speech adapter is trimmed and
\* ends with its only mark (it was cut after the earliest mark of the
\* buffer); the texts spoken so far followed by the buffer are, spaces
\* apart, the response received so far, so nothing is left out, repeated or
\* out of order; no mark is left in the buffer when the next token is
\* awaited; and the stream "The sky ", "is blue.", " Isn't ", "that nice?"
\* ends with exactly "The sky is blue." and "Isn't that nice?" spoken.
C23_SentencesAreSpokenInStreamOrder ==
    /\ \A i \in 1..stream.flushed : IsSentence(stream.spoken[i])
    /\ stream.pc \in {"read", "split"}
          => /\ Len(stream.spoken) = stream.flushed
             /\ Unspaced(Concat(stream.spoken) \o stream.sentence_buffer)
                   = Unspaced(stream.full_response)
    /\ stream.pc = "read" => ~HasMark(stream.sentence_buffer)
    /\ (StreamCompleted /\ stream.stream = ExampleStream)
          => stream.spoken = <<TheSkyIsBlue, IsntThatNice>>

\* the stream of the example is complete and two sentences were spoken
C23_ExampleStreamSpoken ==
    /\ StreamCompleted
    /\ stream.pc = "done"
    /\ stream.stream = ExampleStream
    /\ stream.flushed = 2
    /\ stream.spoken = <<TheSkyIsBlue, IsntThatNice>>

\* `say` was run by the router, after the client returned
RouterSpoke == \E i \in DOMAIN stream.log : stream.log[i] = "say"

StreamedResponseIsSpokenOnceByTheClient ==
    StreamCompleted =>
        /\ IF Strip(stream.sentence_buffer) # <<>>
           THEN /\ Len(stream.spoken) = stream.flushed + 1
                /\ stream.spoken[Len(stream.spoken)] = Strip(stream.sentence_buffer)
           ELSE Len(stream.spoken) = stream.flushed
        /\ Get(stream.ret).spoken_response = Spoken(Strip(Concat(stream.stream)))

=============================================================================
